---- MODULE Spec2Model ----
(***************************************************************************)
(* Model of the radiomics modelling toolkit:                               *)
(*   - Statistical_analysis/feature_selection.py (FeatureSelection,        *)
(*     FilterFeatureSelection, BorutaShapFeatureSelection)                 *)
(*   - Radiomics_gliomas_article/modeling_pipeline_article.py              *)
(*     (format_feature_name, get_dataset, get_features_dic, get_best_index,*)
(*     save_results)                                                       *)
(*   - Statistical_analysis/data_harmonization.py (neuroComBat)            *)
(*   - Radiomics_gliomas_article/local_intensity_features.py               *)
(* Strings that the code takes apart are sequences of one-character        *)
(* strings; indices are 0-based as in the code wherever they are program  *)
(* values.                                                                 *)
(***************************************************************************)
EXTENDS Integers, Sequences, FiniteSets, TLC

\* ------------------------------------------------------------------------
\* Bounds of the model
\* ------------------------------------------------------------------------
MaxResults == 3      \* configurations in one inner search result
MaxFeatures == 3     \* columns of a feature matrix
MaxDatasets == 2     \* dataset ids in one dataset_list
MaxVoxels == 2       \* voxels of an image
MaxFolds == 3        \* outer folds of a nested CV
MaxCandidates == 2   \* candidates of one inner search
MaxSamples == 2      \* bootstrap samples of one fit
MaxRejected == 3     \* rejected draws the model counts in one draw loop
MaxRows == 3         \* rows of the tables of one comparison
MaxModels == 3       \* entries of the catalog the driver trains

VARIABLES
    selector,       \* the feature selector: its parameters and fitted attributes
    fs_call,        \* the last call on the selector and how it ended
    cv_results,     \* get_best_index: the argument (one inner search result)
    best_index,     \* get_best_index: the returned index, -1 before the call
    feature_name,   \* format_feature_name: the argument
    formatted,      \* format_feature_name: what the call produced
    ds_call,        \* get_dataset / get_features_dic: the call and how it ended
    ncb_call,       \* neuroComBat: the call and how it ended
    lif_call,       \* local_intensity_features: the call and how it ended
    sr_call,        \* save_results: the call and what it wrote
    eb_call,        \* enhanced_borda: the rank matrix and the ranking returned
    bs,             \* _get_bsamples_index: the locals of the draw loop
    bac_call,       \* before_after_comparison: the call and the groups it tested
    drv,            \* the driver (__main__): the training loop and the selection
    nm              \* a catalog name: its parts, the name built and its parsing

gbiVars == <<cv_results, best_index>>
ffnVars == <<feature_name, formatted>>
fsVars == <<selector, fs_call>>
dsVars == <<ds_call>>
ncbVars == <<ncb_call>>
lifVars == <<lif_call>>
srVars == <<sr_call>>
ebVars == <<eb_call>>
bsVars == <<bs>>
bacVars == <<bac_call>>
drvVars == <<drv>>
nmVars == <<nm>>
vars == <<selector, fs_call, cv_results, best_index, feature_name, formatted, ds_call, ncb_call, lif_call, sr_call, eb_call, bs, bac_call, drv, nm>>

\* the three calls above before they are made
IdleCalls == ncb_call = [op |-> "none"] /\ lif_call = [op |-> "none"] /\ sr_call = [op |-> "none"]

IdleEB == eb_call = [op |-> "none"]
IdleBS == bs = [pc |-> "none"]
IdleBAC == bac_call = [op |-> "none"]
IdleDRV == drv = [pc |-> "none"]
IdleNM == nm = [pc |-> "none"]
IdleRest == IdleEB /\ IdleBS /\ IdleBAC /\ IdleDRV /\ IdleNM

\* Python's None among numbers: the one value that is not a natural number
None == -1

\* ------------------------------------------------------------------------
\* Python str / list primitives used by the code
\* ------------------------------------------------------------------------
Range(s) == {s[i] : i \in DOMAIN s}

\* min(...) / max(...) of a non-empty sequence of numbers
SeqMin(s) == CHOOSE m \in Range(s) : \A x \in Range(s) : m <= x
SeqMax(s) == CHOOSE m \in Range(s) : \A x \in Range(s) : m >= x

\* y=None, the default of the label argument
None_y == "None"

\* s[i:i+len(p)] == p  (i is 1-based here)
MatchAt(s, p, i) ==
    /\ i >= 1
    /\ i + Len(p) - 1 <= Len(s)
    /\ \A j \in 1..Len(p) : s[i + j - 1] = p[j]

\* p in s
StrContains(s, p) == \E i \in 1..(Len(s) + 1) : MatchAt(s, p, i)

\* s.endswith(p)
EndsWith(s, p) == Len(p) <= Len(s) /\ MatchAt(s, p, Len(s) - Len(p) + 1)

\* s.replace(old, new): leftmost, non-overlapping occurrences
RECURSIVE ReplaceFrom(_, _, _, _)
ReplaceFrom(s, old, new, i) ==
    IF i > Len(s) THEN <<>>
    ELSE IF MatchAt(s, old, i) THEN new \o ReplaceFrom(s, old, new, i + Len(old))
    ELSE <<s[i]>> \o ReplaceFrom(s, old, new, i + 1)

StrReplace(s, old, new) == ReplaceFrom(s, old, new, 1)

\* s.find(p, i): 1-based position of the first occurrence at or after i, 0 if none
RECURSIVE FindFrom(_, _, _)
FindFrom(s, p, i) ==
    IF i + Len(p) - 1 > Len(s) THEN 0
    ELSE IF MatchAt(s, p, i) THEN i
    ELSE FindFrom(s, p, i + 1)

\* s.split(sep): the list of the parts between the occurrences of sep
RECURSIVE SplitFrom(_, _, _)
SplitFrom(s, sep, i) ==
    LET k == FindFrom(s, sep, i)
    IN  IF k = 0 THEN <<SubSeq(s, i, Len(s))>>
        ELSE <<SubSeq(s, i, k - 1)>> \o SplitFrom(s, sep, k + Len(sep))

StrSplit(s, sep) == SplitFrom(s, sep, 1)

\* sep.join(parts)
RECURSIVE StrJoin(_, _)
StrJoin(sep, parts) ==
    IF Len(parts) = 0 THEN <<>>
    ELSE IF Len(parts) = 1 THEN parts[1]
    ELSE parts[1] \o sep \o StrJoin(sep, Tail(parts))

\* ------------------------------------------------------------------------
\* FeatureSelection / FilterFeatureSelection / BorutaShapFeatureSelection
\* ------------------------------------------------------------------------
\* A feature matrix X is [kind, n, vals]: kind tells whether it is a 2-D
\* array-like, n is X.shape[1], and vals[i] is what the scoring or ranking
\* function returns for column i on (X, y).  y is its kind alone.
scoring_methods == <<"auc_roc", "pearson_corr", "spearman_corr", "mi", "wlcx_score">>
score_indicator_lower_of == <<"False", "False", "False", "False", "False">>
ranking_methods == <<"mrmr">>
ranking_aggregation_methods ==
    <<"enhanced_borda", "borda", "importance_score", "mean",
      "stability_selection_aggregation", "exponential_weighting">>

\* a value of n_selected_features that is neither an int nor None
NotIntegral == -2

\* list.index(x), 0-based; the code only asks for members
IndexOf(list, x) ==
    (CHOOSE i \in DOMAIN list : list[i] = x /\ \A j \in DOMAIN list : list[j] = x => i <= j) - 1

\* _check_X_Y(X, y): the exception it raises, or "ok"
check_X_Y(X, y) ==
    IF X.kind = "not_array_like" THEN "TypeError"
    ELSE IF X.kind = "not_2d" THEN "ValueError"
    ELSE IF y = None_y THEN "ok"
    ELSE IF y = "not_array_like" THEN "TypeError"
    ELSE IF y = "bad_shape" THEN "ValueError"
    ELSE IF y = "one_class" THEN "ValueError"
    ELSE "ok"

\* str.lower() on the names this model passes
Lower(name) ==
    IF name = "MRMR" THEN "mrmr"
    ELSE IF name = "WLCX_SCORE" THEN "wlcx_score"
    ELSE name

\* _get_fs_func: the selector with ranking_done / score_indicator_lower as the
\* call leaves them, and the exception raised, or "ok"
get_fs_func(sel) ==
    IF sel.method = "<function>" THEN [sel |-> sel, error |-> "ok"]
    ELSE IF sel.method = "<not str>" THEN [sel |-> sel, error |-> "TypeError"]
    ELSE IF Lower(sel.method) \notin Range(scoring_methods) \cup Range(ranking_methods)
         THEN [sel |-> sel, error |-> "ValueError"]
    ELSE IF Lower(sel.method) \in Range(ranking_methods)
         THEN [sel |-> [sel EXCEPT !.ranking_done = TRUE], error |-> "ok"]
    ELSE IF sel.method \notin Range(scoring_methods)
         \* list.index(self.method) looks for the name as given, not lowered
         THEN [sel |-> [sel EXCEPT !.ranking_done = FALSE], error |-> "ValueError"]
    ELSE [sel |-> [sel EXCEPT !.ranking_done = FALSE,
                              !.score_indicator_lower =
                                  score_indicator_lower_of[IndexOf(scoring_methods, sel.method) + 1]],
          error |-> "ok"]

\* _get_aggregation_method: what it returns (the name of the built-in, or
\* "None" when it falls off its end), and the exception raised, or "ok"
get_aggregation_method(sel) ==
    IF sel.ranking_aggregation = "<not str>" THEN [func |-> "None", error |-> "TypeError"]
    ELSE IF sel.ranking_aggregation = "<function>" THEN [func |-> "None", error |-> "ok"]
    ELSE IF sel.ranking_aggregation \notin Range(ranking_aggregation_methods)
         THEN [func |-> "None", error |-> "ValueError"]
    ELSE [func |-> sel.ranking_aggregation, error |-> "ok"]

\* _check_n_selected_feature(X, n_selected_features)
check_n_selected_feature(X, n_selected_features) ==
    IF n_selected_features = NotIntegral THEN [value |-> NotIntegral, error |-> "TypeError"]
    ELSE IF n_selected_features = None THEN [value |-> X.n, error |-> "ok"]
    ELSE [value |-> n_selected_features, error |-> "ok"]

\* score *= -1
Negate(score) == [i \in DOMAIN score |-> 0 - score[i]]

\* rankdata(a, method='ordinal'): ties get distinct ranks in order of position
rankdata_ordinal(a) ==
    [i \in DOMAIN a |->
        1 + Cardinality({j \in DOMAIN a : a[j] < a[i]})
          + Cardinality({j \in DOMAIN a : j < i /\ a[j] = a[i]})]

\* twice rankdata(a) (method='average'): ties share the mean of their ranks
rankdata_average2(a) ==
    [i \in DOMAIN a |->
        2 * Cardinality({j \in DOMAIN a : a[j] < a[i]})
          + Cardinality({j \in DOMAIN a : a[j] = a[i]}) + 1]

\* sorted(ranks)
RECURSIVE Sorted(_)
Sorted(a) ==
    IF Len(a) = 0 THEN <<>>
    ELSE LET m == SeqMin(a)
             k == IndexOf(a, m) + 1
         IN  <<m>> \o Sorted(SubSeq(a, 1, k - 1) \o SubSeq(a, k + 1, Len(a)))

\* [list(ranks).index(_) for _ in sorted(ranks)]
ranking_index_of(ranks) ==
    LET srt == Sorted(ranks)
    IN  [i \in DOMAIN srt |-> IndexOf(ranks, srt[i])]

\* ranking_index[:k] for k >= 0
Take(list, k) == SubSeq(list, 1, IF k < Len(list) THEN k ELSE Len(list))

\* np.sum over the bootstrap samples of one column
RECURSIVE SumOver(_)
SumOver(column) ==
    IF column = <<>> THEN 0 ELSE Head(column) + SumOver(Tail(column))

\* The built-in aggregations on R2, twice the bootstrap rank matrix
\* (samples x features), with k = n_selected_features.  Doubling every rank
\* scales the summed statistics by two and leaves their order as it is.
\* importance_score and exponential_weighting rank by sums of square roots and
\* exponentials and are outside the integers of this model.
\* a borda count that counts down from the number of bootstrap samples
borda_count2_from_samples(R2, j) == SumOver([b \in DOMAIN R2 |-> 2 * Len(R2) - R2[b][j]])

\* np.sum(bootstrap_ranks.shape[1] - bootstrap_ranks, axis=0), doubled
borda_count2(R2, j) == SumOver([b \in DOMAIN R2 |-> 2 * Len(R2[1]) - R2[b][j]])
stability_count(R2, k, j) == Cardinality({b \in DOMAIN R2 : R2[b][j] <= 2 * k})
rank_sum2(R2, j) == SumOver([b \in DOMAIN R2 |-> R2[b][j]])

borda(R2, k) ==
    rankdata_ordinal([j \in DOMAIN R2[1] |-> 0 - borda_count2(R2, j)])
mean(R2, k) ==
    rankdata_ordinal([j \in DOMAIN R2[1] |-> rank_sum2(R2, j)])
stability_selection_aggregation(R2, k) ==
    rankdata_ordinal([j \in DOMAIN R2[1] |-> 0 - stability_count(R2, k, j)])
enhanced_borda(R2, k) ==
    rankdata_ordinal([j \in DOMAIN R2[1] |-> 0 - borda_count2(R2, j) * stability_count(R2, k, j)])

\* the aggregations this model computes
ComputedAggregations ==
    {"enhanced_borda", "borda", "mean", "stability_selection_aggregation"}

aggregate(func, R2, k) ==
    IF func = "enhanced_borda" THEN enhanced_borda(R2, k)
    ELSE IF func = "borda" THEN borda(R2, k)
    ELSE IF func = "mean" THEN mean(R2, k)
    ELSE stability_selection_aggregation(R2, k)

\* the bootstrap branch of fit after _get_bsamples_index: B[b] is what the
\* scoring or ranking function returns on bootstrap sample b
bootstrap_ranking(sel, func, B) ==
    IF ~sel.ranking_done /\ sel.score_indicator_lower = "None"
    THEN [error |-> "ValueError", ranking_index |-> <<>>, ranks |-> <<>>,
          drawn |-> TRUE, scored |-> 0]
    ELSE LET R2 == IF sel.ranking_done
                   THEN [b \in DOMAIN B |-> [j \in DOMAIN B[b] |-> 2 * B[b][j]]]
                   ELSE [b \in DOMAIN B |->
                            rankdata_average2(IF sel.score_indicator_lower = "False"
                                              THEN Negate(B[b]) ELSE B[b])]
         IN  IF func = "None"
             THEN [error |-> "TypeError", ranking_index |-> <<>>, ranks |-> <<>>,
                   drawn |-> TRUE, scored |-> Len(B)]
             ELSE IF func = "unbound"
             THEN [error |-> "UnboundLocalError", ranking_index |-> <<>>, ranks |-> <<>>,
                   drawn |-> TRUE, scored |-> Len(B)]
             ELSE [error |-> "ok",
                   ranking_index |->
                       ranking_index_of(aggregate(func, R2, sel.n_selected_features)),
                   ranks |-> aggregate(func, R2, sel.n_selected_features),
                   drawn |-> TRUE, scored |-> Len(B)]

\* the direct branch of fit
direct_ranking(sel, X) ==
    IF sel.ranking_done
    THEN [error |-> "ok", ranking_index |-> ranking_index_of(X.vals), ranks |-> X.vals,
          drawn |-> FALSE, scored |-> 1]
    ELSE IF sel.score_indicator_lower = "None"
         THEN [error |-> "ValueError", ranking_index |-> <<>>, ranks |-> <<>>,
               drawn |-> FALSE, scored |-> 0]
         ELSE LET score == IF sel.score_indicator_lower = "False"
                           THEN Negate(X.vals) ELSE X.vals
              IN  [error |-> "ok", ranking_index |-> ranking_index_of(rankdata_ordinal(score)),
                   ranks |-> rankdata_ordinal(score), drawn |-> FALSE, scored |-> 1]

\* drawn: _get_bsamples_index was called; scored: the calls of fs_func made;
\* ranks: the rank vector ranking_index is taken from
\* a fit that bootstraps whether or not an aggregation is given
aggregation_missing_ignored(sel) == FALSE

\* if self.ranking_aggregation is None, under if self.bootstrap
aggregation_missing(sel) == sel.ranking_aggregation = "None"

Raised(sel, error) ==
    [sel |-> sel, error |-> error, returned |-> "-", ranks |-> <<>>,
     drawn |-> FALSE, scored |-> 0]

\* FilterFeatureSelection.fit(X, y): the selector as the call leaves it, the
\* exception raised or "ok", and the value returned
FilterFit(sel, X, y, B) ==
    IF check_X_Y(X, y) # "ok" THEN Raised(sel, check_X_Y(X, y))
    ELSE
    LET s1 == [sel EXCEPT !.n_features = X.n]
        fs == get_fs_func(s1)
    IN  IF fs.error # "ok" THEN Raised(fs.sel, fs.error)
        ELSE
        LET s2 == fs.sel
            agg == IF s2.ranking_aggregation # "None"
                   THEN get_aggregation_method(s2)
                   ELSE [func |-> "unbound", error |-> "ok"]
        IN  IF agg.error # "ok" THEN Raised(s2, agg.error)
            ELSE
            LET k == check_n_selected_feature(X, s2.n_selected_features)
            IN  IF k.error # "ok" THEN Raised(s2, k.error)
                ELSE
                LET s3 == [s2 EXCEPT !.n_selected_features = k.value]
                    rk == IF s3.bootstrap
                          THEN IF aggregation_missing(s3)
                               THEN [error |-> "ValueError", ranking_index |-> <<>>,
                                     ranks |-> <<>>, drawn |-> FALSE, scored |-> 0]
                               ELSE bootstrap_ranking(s3, agg.func, B)
                          ELSE direct_ranking(s3, X)
                IN  IF rk.error # "ok"
                    THEN [Raised(s3, rk.error) EXCEPT !.drawn = rk.drawn, !.scored = rk.scored]
                    ELSE [sel |-> [s3 EXCEPT !.fitted = TRUE,
                                             !.accepted_features_index_ =
                                                 Take(rk.ranking_index, s3.n_selected_features)],
                          error |-> "ok",
                          returned |-> "self",
                          ranks |-> rk.ranks,
                          drawn |-> rk.drawn,
                          scored |-> rk.scored]

\* BorutaShapFeatureSelection.fit(X, y): accepted is the set of columns the
\* BorutaShap package accepts; the method ends without a return statement
BorutaShapFit(sel, X, y, accepted) ==
    IF check_X_Y(X, y) # "ok" THEN Raised(sel, check_X_Y(X, y))
    ELSE [sel |-> [sel EXCEPT !.n_features = X.n,
                              !.fitted = TRUE,
                              !.accepted_features_index_ = accepted],
          error |-> "ok",
          returned |-> "None",
          ranks |-> <<>>,
          drawn |-> FALSE,
          scored |-> 0]

\* a check_is_fitted that answers instead of raising
check_is_fitted_answering(sel) == "True"

\* sklearn's check_is_fitted(self): raises NotFittedError when the estimator
\* has no attribute ending in "_", and returns None otherwise
check_is_fitted(sel) == IF sel.fitted THEN "None" ELSE "NotFittedError"

\* truth value of what check_is_fitted returned
Truthy(v) == v \notin {"None", "False"}

\* _get_support_mask
get_support_mask(sel) ==
    [i \in 1..sel.n_features |-> (i - 1) \in Range(sel.accepted_features_index_)]

\* SelectorMixin.transform(X): X[:, mask] as the kept column indices, in order
RECURSIVE MaskedColumns(_, _)
MaskedColumns(mask, i) ==
    IF i > Len(mask) THEN <<>>
    ELSE (IF mask[i] THEN <<i - 1>> ELSE <<>>) \o MaskedColumns(mask, i + 1)

selector_mixin_transform(sel, X) ==
    IF sel.n_features = None \/ ~sel.fitted
    THEN [error |-> "AttributeError", output |-> <<>>]
    ELSE IF sel.n_features # X.n THEN [error |-> "ValueError", output |-> <<>>]
    ELSE [error |-> "ok", output |-> MaskedColumns(get_support_mask(sel), 1)]

\* FeatureSelection.transform(X)
transform(sel, X) ==
    IF check_X_Y(X, None_y) # "ok" THEN [error |-> check_X_Y(X, None_y), output |-> <<>>]
    ELSE IF check_is_fitted(sel) = "NotFittedError"
         THEN [error |-> "NotFittedError", output |-> <<>>]
    ELSE IF Truthy(check_is_fitted(sel))
         THEN selector_mixin_transform(sel, X)
    ELSE [error |-> "NotFittedError", output |-> <<>>]

\* FeatureSelection.fit_transform(X, y): self.fit(X, y).transform(X)
fit_transform(sel, X, y, B, accepted) ==
    LET f == IF sel.kind = "BorutaShap"
             THEN BorutaShapFit(sel, X, y, accepted)
             ELSE FilterFit(sel, X, y, B)
    IN  IF f.error # "ok"
        THEN [sel |-> f.sel, error |-> f.error, output |-> <<>>, ranks |-> f.ranks,
              drawn |-> f.drawn, scored |-> f.scored]
        ELSE IF f.returned = "None"
             THEN [sel |-> f.sel, error |-> "AttributeError", output |-> <<>>,
                   ranks |-> f.ranks, drawn |-> f.drawn, scored |-> f.scored]
        ELSE LET t == transform(f.sel, X)
             IN  [sel |-> IF t.error = "ok"
                          THEN [f.sel EXCEPT !.selected_features = t.output]
                          ELSE f.sel,
                  error |-> t.error,
                  output |-> t.output,
                  ranks |-> f.ranks,
                  drawn |-> f.drawn,
                  scored |-> f.scored]

\* Inputs of the selector's calls
ScoreValues == {1, 2}

RECURSIVE AscendingSeq(_)
AscendingSeq(S) ==
    IF S = {} THEN <<>>
    ELSE LET m == CHOOSE m \in S : \A x \in S : m <= x
         IN  <<m>> \o AscendingSeq(S \ {m})

\* what a scoring function or a user function may return for n columns
ScoreVectors(n) == [1..n -> ScoreValues]
\* what mrmr returns: every rank from 1 to n once
RankPermutations(n) == {r \in [1..n -> 1..n] : \A i, j \in 1..n : r[i] = r[j] => i = j}

ValuesFor(sel, n) ==
    IF Lower(sel.method) \in Range(ranking_methods) THEN RankPermutations(n) ELSE ScoreVectors(n)

IllFormedX == [kind |-> "not_2d", n |-> 0, vals |-> <<>>]

\* with bootstrap on, and in BorutaShap, fit never calls the function on X itself
FitX(sel) ==
    {IllFormedX}
    \cup UNION { { [kind |-> "ok", n |-> n, vals |-> v] :
                     v \in IF sel.bootstrap \/ sel.kind = "BorutaShap"
                           THEN {<<>>} ELSE ValuesFor(sel, n) } :
                 n \in 1..MaxFeatures }

TransformX == {IllFormedX} \cup { [kind |-> "ok", n |-> n, vals |-> <<>>] : n \in 1..MaxFeatures }

\* the (X, y) pairs handed to fit: every well-formed pair, an ill-formed X,
\* and a y of one class only
FitArgs(sel) ==
    { <<X, "ok">> : X \in FitX(sel) }
    \cup { <<X, "one_class">> : X \in {Z \in FitX(sel) : Z.kind = "ok" /\ Z.n = 1} }

\* the fs_func results on the bootstrap samples, consulted when bootstrap is on
BootstrapValues(sel, X) ==
    IF sel.kind = "Filter" /\ sel.bootstrap /\ sel.ranking_aggregation # "None" /\ X.kind = "ok"
    THEN [1..sel.n_bsamples -> ValuesFor(sel, X.n)]
    ELSE {<<>>}

\* the columns BorutaShap may accept
BorutaAccepted(sel, X) ==
    IF sel.kind = "BorutaShap" /\ X.kind = "ok"
    THEN {AscendingSeq(S) : S \in SUBSET (0..(X.n - 1))}
    ELSE {<<>>}

\* __init__ of the two selectors
NewSelector(kind, method, bootstrap, n_bsamples, n_selected_features, ranking_aggregation, ranking_done, score_indicator_lower) ==
    [kind |-> kind,
     method |-> method,
     bootstrap |-> bootstrap,
     n_bsamples |-> n_bsamples,
     n_selected_features |-> n_selected_features,
     ranking_aggregation |-> ranking_aggregation,
     ranking_done |-> ranking_done,
     score_indicator_lower |-> score_indicator_lower,
     n_features |-> None,
     fitted |-> FALSE,
     accepted_features_index_ |-> <<>>,
     selected_features |-> <<>>,
     \* what the caller passed for the parameters fit writes to
     user_params |-> [n_selected_features |-> n_selected_features,
                      ranking_done |-> ranking_done,
                      score_indicator_lower |-> score_indicator_lower]]

FilterSelectors ==
    { NewSelector("Filter", m, FALSE, 100, k, "None", FALSE, "None") :
        m \in {"wlcx_score", "mrmr", "<function>"},
        k \in {None, 1, 2} }
    \cup
    { NewSelector("Filter", "bogus", FALSE, 100, 2, "None", FALSE, "None") }
    \cup
    { NewSelector("Filter", "<function>", FALSE, 100, k, "None", FALSE, "True") :
        k \in {None, 1, 2} }
    \cup
    { NewSelector("Filter", "<function>", FALSE, 100, k, "None", TRUE, "None") :
        k \in {0, 2} }
    \cup
    { NewSelector("Filter", "wlcx_score", TRUE, 1, 2, a, FALSE, "None") :
        a \in {"borda", "<function>", "stability_selection"} }
    \cup
    { NewSelector("Filter", m, TRUE, 1, k, "None", FALSE, "None") :
        m \in {"wlcx_score", "mrmr", "<function>", "bogus"},
        k \in {None, 1, 2} }

BorutaShapSelectors ==
    { NewSelector("BorutaShap", "None", FALSE, 0, None, "None", FALSE, "None") }

NoSelector == NewSelector("none", "None", FALSE, 0, None, "None", FALSE, "None")
\* X.shape as the record of a call keeps it
Shape(X) == [kind |-> X.kind, n |-> X.n]

NoCall ==
    [op |-> "none", error |-> "ok", returned |-> "-", X |-> Shape(IllFormedX), y |-> None_y,
     output |-> <<>>, ranks |-> <<>>, drawn |-> FALSE, scored |-> 0]

IdleFS == selector = NoSelector /\ fs_call = NoCall

InitFS ==
    /\ IdleRest
    /\ selector \in FilterSelectors \cup BorutaShapSelectors
    /\ fs_call = NoCall
    /\ cv_results = [param_order |-> <<>>, rank_test_score |-> <<>>, params |-> <<>>]
    /\ best_index = -1
    /\ feature_name = <<>>
    /\ formatted = [status |-> "none", value |-> <<>>]
    /\ ds_call = [op |-> "none"]
    /\ IdleCalls

\* selector.fit(X, y)
Fit ==
    /\ selector.kind # "none"
    /\ \E arg \in FitArgs(selector) :
       \E B \in BootstrapValues(selector, arg[1]), accepted \in BorutaAccepted(selector, arg[1]) :
       \E f \in {IF selector.kind = "BorutaShap"
                 THEN BorutaShapFit(selector, arg[1], arg[2], accepted)
                 ELSE FilterFit(selector, arg[1], arg[2], B)} :
          /\ selector' = f.sel
          /\ fs_call' = [op |-> "fit", error |-> f.error, returned |-> f.returned,
                         X |-> Shape(arg[1]), y |-> arg[2], output |-> <<>>,
                         ranks |-> f.ranks, drawn |-> f.drawn, scored |-> f.scored]
    /\ UNCHANGED <<gbiVars, ffnVars, dsVars, ncbVars, lifVars, srVars,
                 ebVars, bsVars, bacVars, drvVars, nmVars>>

\* selector.transform(X)
Transform ==
    /\ selector.kind # "none"
    /\ \E X \in TransformX :
       \E t \in {transform(selector, X)} :
          /\ selector' = IF t.error = "ok"
                         THEN [selector EXCEPT !.selected_features = t.output]
                         ELSE selector
          /\ fs_call' = [op |-> "transform", error |-> t.error,
                         returned |-> IF t.error = "ok" THEN "matrix" ELSE "-",
                         X |-> Shape(X), y |-> None_y, output |-> t.output,
                         ranks |-> <<>>, drawn |-> FALSE, scored |-> 0]
    /\ UNCHANGED <<gbiVars, ffnVars, dsVars, ncbVars, lifVars, srVars,
                 ebVars, bsVars, bacVars, drvVars, nmVars>>

\* selector.fit_transform(X, y)
FitTransform ==
    /\ selector.kind # "none"
    /\ \E arg \in FitArgs(selector) :
       \E B \in BootstrapValues(selector, arg[1]), accepted \in BorutaAccepted(selector, arg[1]) :
       \E r \in {fit_transform(selector, arg[1], arg[2], B, accepted)} :
          /\ selector' = r.sel
          /\ fs_call' = [op |-> "fit_transform", error |-> r.error,
                         returned |-> IF r.error = "ok" THEN "matrix" ELSE "-",
                         X |-> Shape(arg[1]), y |-> arg[2], output |-> r.output,
                         ranks |-> r.ranks, drawn |-> r.drawn, scored |-> r.scored]
    /\ UNCHANGED <<gbiVars, ffnVars, dsVars, ncbVars, lifVars, srVars,
                 ebVars, bsVars, bacVars, drvVars, nmVars>>

\* the methods set_params installs on an existing selector
SetParamsMethods == {"<function>"}

\* selector.set_params(method=m), inherited from BaseEstimator: setattr on the
\* named parameter and nothing else
SetParams ==
    /\ selector.kind = "Filter"
    /\ \E m \in SetParamsMethods :
          /\ selector.method # m
          /\ selector' = [selector EXCEPT !.method = m]
    /\ fs_call' = [NoCall EXCEPT !.op = "set_params"]
    /\ UNCHANGED <<gbiVars, ffnVars, dsVars, ncbVars, lifVars, srVars,
                 ebVars, bsVars, bacVars, drvVars, nmVars>>

NextFS == Fit \/ Transform \/ FitTransform \/ SetParams

SpecFS == InitFS /\ [][NextFS]_vars

\* ------------------------------------------------------------------------
\* get_best_index(cv_results)
\* ------------------------------------------------------------------------
FS_KEY == "FeatureSelection__n_selected_features"

params_of_interest ==
    <<"classifier__C", "classifier__base_estimator__C", "classifier__max_features",
      "classifier__alpha">>

\* the hyperparameter names that contain 'classifier'
ClassifierKeys ==
    {"classifier__C", "classifier__base_estimator__C", "classifier__max_features",
     "classifier__alpha", "classifier__gamma"}

\* numpy boolean indexing a[mask]: the elements whose mask entry is true, in order
RECURSIVE Compress(_, _)
Compress(a, mask) ==
    IF Len(a) = 0 THEN <<>>
    ELSE (IF mask[1] THEN <<a[1]>> ELSE <<>>) \o Compress(Tail(a), Tail(mask))

\* [_ for _ in names if pred]
RECURSIVE KeepIn(_, _)
KeepIn(names, S) ==
    IF Len(names) = 0 THEN <<>>
    ELSE (IF Head(names) \in S THEN <<Head(names)>> ELSE <<>>) \o KeepIn(Tail(names), S)

best_rank_mask(cv) ==
    [i \in DOMAIN cv.rank_test_score |->
        cv.rank_test_score[i] = SeqMin(cv.rank_test_score)]

\* params_best_score[0].keys(): every params mapping of one search carries the
\* same names in the same order
params_name(cv) == cv.param_order

\* a slip that prefers the largest explicit count
best_fs_largest(fs_params) ==
    IF None \in Range(fs_params) THEN None ELSE SeqMax(fs_params)

\* a slip that looks at None only when no explicit count is left
best_fs_explicit_first(fs_params) ==
    IF \A i \in DOMAIN fs_params : fs_params[i] = None
    THEN None
    ELSE SeqMin(Compress(fs_params, [i \in DOMAIN fs_params |-> fs_params[i] # None]))

\* if None in fs_params: best_fs = None else: best_fs = fs_params.min()
best_fs(fs_params) ==
    IF None \in Range(fs_params) THEN None ELSE SeqMin(fs_params)

\* the narrowing on FeatureSelection__n_selected_features
narrow_n_selected(params_best_score, names) ==
    IF FS_KEY \in Range(names)
    THEN LET fs_params == [i \in DOMAIN params_best_score |-> params_best_score[i][FS_KEY]]
         IN  Compress(params_best_score,
                      [i \in DOMAIN fs_params |-> fs_params[i] = best_fs(fs_params)])
    ELSE params_best_score

\* a variant that walks params_of_interest instead of the names of the mapping
param_chosen_by_priority(names) ==
    KeepIn(params_of_interest, Range(names) \cap ClassifierKeys)

\* classifier_params_names then param_chosen: both keep the order of params_name
param_chosen(names) ==
    KeepIn(KeepIn(names, ClassifierKeys), Range(params_of_interest))

\* params_of_interest != 'classifier__alpha' compares the list with a str
interest_is_not_alpha == TRUE

\* the narrowing on the first chosen classifier hyperparameter
narrow_classifier(params_best_score, names) ==
    LET chosen == param_chosen(names)
    IN  IF Len(chosen) > 0
        THEN LET classifier_params ==
                     [i \in DOMAIN params_best_score |-> params_best_score[i][chosen[1]]]
                 target == IF interest_is_not_alpha
                           THEN SeqMin(classifier_params)
                           ELSE SeqMax(classifier_params)
             IN  Compress(params_best_score,
                          [i \in DOMAIN classifier_params |-> classifier_params[i] = target])
        ELSE params_best_score

\* np.where(np.array(cv_results['params']) == best_params)[0][0], 0-based
first_index_of(params, best_params) ==
    (CHOOSE i \in DOMAIN params :
        /\ params[i] = best_params
        /\ \A j \in DOMAIN params : params[j] = best_params => i <= j) - 1

get_best_index(cv) ==
    LET tied == Compress(cv.params, best_rank_mask(cv))
        names == params_name(cv)
        after_fs == narrow_n_selected(tied, names)
        after_clf == narrow_classifier(after_fs, names)
        best_params == after_clf[1]
    IN  first_index_of(cv.params, best_params)

\* Inner search results handed to get_best_index.  The search engine samples a
\* params mapping with its names sorted, so param_order is sorted.
ParamOrders ==
    { <<FS_KEY>>,
      <<"classifier__C">>,
      <<FS_KEY, "classifier__C">>,
      <<FS_KEY, "classifier__alpha">>,
      <<"classifier__C", "classifier__alpha">>,
      <<"classifier__alpha", "classifier__max_features">>,
      <<"classifier__gamma">> }

Ranks == {1, 2}
ParamValues == {1, 2}
NSelectedValues == {None, 1, 2}

ValuesOf(key) == IF key = FS_KEY THEN NSelectedValues ELSE ParamValues

ParamsOver(order) ==
    {p \in [Range(order) -> NSelectedValues \cup ParamValues] :
        \A k \in Range(order) : p[k] \in ValuesOf(k)}

\* the search results of n configurations over one param_order
CvResults(order, n) ==
    { [param_order |-> order, rank_test_score |-> r, params |-> ps] :
        r \in [1..n -> Ranks], ps \in [1..n -> ParamsOver(order)] }

NoResults == [param_order |-> <<>>, rank_test_score |-> <<>>, params |-> <<>>]

IdleGBI == cv_results = NoResults /\ best_index = -1

InitGBI ==
    /\ IdleRest
    /\ \E order \in ParamOrders, n \in 1..MaxResults : cv_results \in CvResults(order, n)
    /\ best_index = -1
    /\ IdleFS
    /\ feature_name = <<>>
    /\ formatted = [status |-> "none", value |-> <<>>]
    /\ ds_call = [op |-> "none"]
    /\ IdleCalls

\* one call of get_best_index on the chosen search result
GetBestIndex ==
    /\ cv_results # NoResults
    /\ best_index = -1
    /\ best_index' = get_best_index(cv_results)
    /\ UNCHANGED <<cv_results, fsVars, ffnVars, dsVars, ncbVars, lifVars, srVars,
                 ebVars, bsVars, bacVars, drvVars, nmVars>>

NextGBI == GetBestIndex

SpecGBI == InitGBI /\ [][NextGBI]_vars

\* ------------------------------------------------------------------------
\* String literals of format_feature_name
\* ------------------------------------------------------------------------
S_original_ == <<"o","r","i","g","i","n","a","l","_">>
S_TBR == <<"T","B","R">>
S_ratio == <<"r","a","t","i","o">>
S__ratio == <<"_","r","a","t","i","o">>
S_merged == <<"m","e","r","g","e","d">>
S_tag3Dmerged == <<"_",".","3","D",".","_","m","e","r","g","e","d",".","_">>
S_tag3D == <<"_",".","3","D",".","_">>
S_dot == <<".">>
S_us == <<"_">>
S_usus == <<"_","_">>
S_matrix == <<"m","a","t","r","i","x">>
S_occurrence == <<"o","c","c","u","r","r","e","n","c","e">>
S_Run_length == <<"R","u","n","_","l","e","n","g","t","h">>
S_Size_zone == <<"S","i","z","e","_","z","o","n","e">>
S_NGTD == <<"N","e","i","g","h","b","o","u","r","h","o","o","d","_","g","r","e","y","_","t","o","n","e","_","d","i","f","f","e","r","e","n","c","e">>
S_NGLD == <<"N","e","i","g","h","b","o","u","r","i","n","g","_","g","r","e","y","_","l","e","v","e","l","_","d","e","p","e","n","d","e","n","c","e">>
S_GLCM == <<"G","L","C","M">>
S_GLRLM == <<"G","L","R","L","M">>
S_GLSZM == <<"G","L","S","Z","M">>
S_NGTDM == <<"N","G","T","D","M">>
S_NGLDM == <<"N","G","L","D","M">>

\* ------------------------------------------------------------------------
\* format_feature_name(feature_name)
\* ------------------------------------------------------------------------
\* del_substrings, in the order the code builds the list
del_substrings(name) ==
    <<S_original_>>
    \o (IF EndsWith(name, S_TBR) THEN <<S_TBR>> ELSE <<>>)
    \o (IF StrContains(name, S_ratio) THEN <<S__ratio>> ELSE <<>>)
    \o (IF StrContains(name, S_merged) THEN <<S_tag3Dmerged>> ELSE <<S_tag3D>>)

\* for substring in del_substrings: feature_name = feature_name.replace(substring, '')
RECURSIVE DeleteAll(_, _)
DeleteAll(name, subs) ==
    IF Len(subs) = 0 THEN name
    ELSE DeleteAll(StrReplace(name, Head(subs), <<>>), Tail(subs))

\* the if/elif chain that abbreviates the matrix family
matrix_abbreviation(matrix_name) ==
    IF StrContains(matrix_name, S_occurrence) THEN S_GLCM
    ELSE IF StrContains(matrix_name, S_Run_length) THEN S_GLRLM
    ELSE IF StrContains(matrix_name, S_Size_zone) THEN S_GLSZM
    ELSE IF StrContains(matrix_name, S_NGTD) THEN S_NGTDM
    ELSE IF StrContains(matrix_name, S_NGLD) THEN S_NGLDM
    ELSE matrix_name

\* if 'matrix' in feature_name: ... feature_name = '_'.join([matrix_name, split[1]])
matrix_rename(name) ==
    IF StrContains(name, S_matrix)
    THEN LET parts == StrSplit(name, S_matrix)
         IN  StrJoin(S_us, <<matrix_abbreviation(parts[1]), parts[2]>>)
    ELSE name

\* feature_name.replace('__', '_') as a statement: str is immutable and the
\* value of the expression is dropped, so feature_name is what it was
collapse_underscores(name) ==
    LET dropped == StrReplace(name, S_usus, S_us)
    IN  name

\* if feature_name[-1] == '_': feature_name = feature_name[:-1]; return
\* feature_name[-1] of the empty string raises IndexError
strip_trailing(name) ==
    IF Len(name) = 0 THEN [status |-> "IndexError", value |-> <<>>]
    ELSE IF name[Len(name)] = "_"
         THEN [status |-> "ok", value |-> SubSeq(name, 1, Len(name) - 1)]
         ELSE [status |-> "ok", value |-> name]

format_feature_name(name) ==
    LET deleted == DeleteAll(name, del_substrings(name))
        undotted == StrReplace(deleted, S_dot, S_us)
        renamed == matrix_rename(undotted)
    IN  strip_trailing(collapse_underscores(renamed))

\* Feature names handed to format_feature_name: prefix + body + suffix
NamePrefixes == { <<>>, S_original_ }

NameBodies ==
    { <<>>,
      <<"F","e","a","t","u","r","e">>,
      <<"o","c","c","u","r","r","e","n","c","e","_","m","a","t","r","i","x","_","C","o","r","r","e","l","a","t","i","o","n">>,
      <<"R","u","n",".","l","e","n","g","t","h","_","m","a","t","r","i","x","_","R","L","N">>,
      <<"S","i","z","e",".","z","o","n","e","_","m","a","t","r","i","x","_","Z","P">>,
      <<"N","e","i","g","h","b","o","u","r","h","o","o","d",".","g","r","e","y",".","t","o","n","e",".","d","i","f","f","e","r","e","n","c","e","_","m","a","t","r","i","x","_","C","o">>,
      <<"N","e","i","g","h","b","o","u","r","i","n","g",".","g","r","e","y",".","l","e","v","e","l",".","d","e","p","e","n","d","e","n","c","e","_","m","a","t","r","i","x","_","D","E">>,
      <<"x","_","m","a","t","r","i","x","_","y">>,
      <<"a","_","r","a","t","i","o">> }

NameSuffixes ==
    { <<>>,
      S_TBR,
      <<".","3","D",".","_","T","B","R">>,
      <<"_",".","3","D",".","_","T","B","R">>,
      <<"_",".","3","D",".","_","m","e","r","g","e","d",".","_","T","B","R">>,
      S_tag3D,
      S_us }

FeatureNames == { p \o b \o s : p \in NamePrefixes, b \in NameBodies, s \in NameSuffixes }

NotFormatted == [status |-> "none", value |-> <<>>]

IdleFFN == feature_name = <<>> /\ formatted = NotFormatted

InitFFN ==
    /\ IdleRest
    /\ feature_name \in FeatureNames
    /\ formatted = NotFormatted
    /\ IdleGBI
    /\ IdleFS
    /\ ds_call = [op |-> "none"]
    /\ IdleCalls

\* one call of format_feature_name on the chosen name
FormatFeatureName ==
    /\ formatted = NotFormatted
    /\ formatted' = format_feature_name(feature_name)
    /\ UNCHANGED <<feature_name, gbiVars, fsVars, dsVars, ncbVars, lifVars, srVars,
                 ebVars, bsVars, bacVars, drvVars, nmVars>>

NextFFN == FormatFeatureName

SpecFFN == InitFFN /\ [][NextFFN]_vars

\* ------------------------------------------------------------------------
\* get_dataset and get_features_dic
\* ------------------------------------------------------------------------
\* A table is the sequence of its column groups, each named after the file it
\* was read from, with the harmonization applied to it.
Table(keys) == [i \in DOMAIN keys |-> [columns |-> keys[i], harmonized |-> "no"]]

\* The two harmonization helpers get_dataset calls
MComBat(table, ref_batch) ==
    [i \in DOMAIN table |-> [table[i] EXCEPT !.harmonized = ref_batch]]
ComBat(table) ==
    [i \in DOMAIN table |-> [table[i] EXCEPT !.harmonized = "no_reference"]]

\* the if harmonization == 'MComBat' ... else ... of every branch
harmonize(harmonization, table) ==
    IF harmonization = "MComBat" THEN MComBat(table, "Vereos") ELSE ComBat(table)

\* pd.read_excel(dataset_dic[key]) for the keys of a branch, in order: the
\* files read, up to the first key dataset_dic does not hold
read_excel_all(dataset_dic, keys) ==
    LET missing == {i \in DOMAIN keys : keys[i] \notin dataset_dic}
    IN  IF missing = {} THEN [error |-> "ok", read |-> keys]
        ELSE LET first == CHOOSE i \in missing : \A j \in missing : i <= j
             IN  [error |-> "KeyError", read |-> SubSeq(keys, 1, first - 1)]

\* the branches of get_dataset: the files a dataset id loads, the ones that
\* are harmonized together and the ones concatenated afterwards
dataset_branches ==
    [x \in {"S+D", "S+D+OR", "S", "S+OR"} |->
        CASE x = "S+D"    -> [loads |-> <<"S", "D">>, harmonized |-> <<"S">>,
                              appended |-> <<"D">>]
          [] x = "S+D+OR" -> [loads |-> <<"S", "D", "OR">>, harmonized |-> <<"S", "OR">>,
                              appended |-> <<"D">>]
          [] x = "S"      -> [loads |-> <<"S">>, harmonized |-> <<"S">>,
                              appended |-> <<>>]
          [] x = "S+OR"   -> [loads |-> <<"S", "OR">>, harmonized |-> <<"S", "OR">>,
                              appended |-> <<>>]]

\* get_dataset(dataset, dataset_dic, batch, harmonization, covariates): the
\* exception raised or "ok", the files read and the mapping returned (a
\* sequence of key/table entries)
get_dataset(dataset, dataset_dic, harmonization) ==
    IF dataset \notin DOMAIN dataset_branches
    THEN [error |-> "ValueError", read |-> <<>>, feature_dic |-> <<>>]
    ELSE LET b == dataset_branches[dataset]
             l == read_excel_all(dataset_dic, b.loads)
         IN  IF l.error # "ok"
             THEN [error |-> l.error, read |-> l.read, feature_dic |-> <<>>]
             ELSE [error |-> "ok",
                   read |-> l.read,
                   feature_dic |-> << [key |-> dataset,
                                       table |-> harmonize(harmonization, Table(b.harmonized))
                                                 \o Table(b.appended)] >>]

\* dict.update(other) on insertion-ordered mappings
RECURSIVE dict_update(_, _)
dict_update(dic, other) ==
    IF other = <<>> THEN dic
    ELSE LET e == Head(other)
             at == {i \in DOMAIN dic : dic[i].key = e.key}
         IN  dict_update(IF at = {} THEN Append(dic, e)
                         ELSE [i \in DOMAIN dic |-> IF i \in at THEN e ELSE dic[i]],
                         Tail(other))

\* the loop of get_features_dic from position i on
RECURSIVE features_loop(_, _, _, _, _, _)
features_loop(ids, i, dataset_dic, harmonization, read, features_dic) ==
    IF i > Len(ids) THEN [error |-> "ok", read |-> read, feature_dic |-> features_dic]
    ELSE LET d == get_dataset(ids[i], dataset_dic, harmonization)
         IN  IF d.error # "ok"
             THEN [error |-> d.error, read |-> read \o d.read, feature_dic |-> <<>>]
             ELSE features_loop(ids, i + 1, dataset_dic, harmonization,
                                read \o d.read, dict_update(features_dic, d.feature_dic))

\* get_features_dic(dataset_list, dataset_dic, batch, harmonization, covariates);
\* a dataset_list that is one string is held as [is_str |-> TRUE, ids |-> <<it>>]
get_features_dic(dataset_list, dataset_dic, harmonization) ==
    LET ids == IF dataset_list.is_str THEN <<dataset_list.ids[1]>> ELSE dataset_list.ids
    IN  features_loop(ids, 1, dataset_dic, harmonization, <<>>, <<>>)

\* Inputs of the two calls
DatasetIds == {"S", "D", "OR", "S+D", "S+D+OR", "S+OR", "X"}
Harmonizations == {"MComBat", "ComBat"}
DatasetDics == SUBSET {"S", "D", "OR"}
DatasetLists ==
    { [is_str |-> TRUE, ids |-> <<d>>] : d \in DatasetIds }
    \cup { [is_str |-> FALSE, ids |-> l] :
             l \in UNION { [1..n -> DatasetIds] : n \in 0..MaxDatasets } }

PendingCall(op, dataset_list, dataset_dic, harmonization) ==
    [op |-> op, dataset_list |-> dataset_list, dataset_dic |-> dataset_dic,
     harmonization |-> harmonization, done |-> FALSE,
     error |-> "ok", read |-> <<>>, feature_dic |-> <<>>]

NoDsCall == [op |-> "none"]

IdleDS == ds_call = NoDsCall

InitDS ==
    /\ IdleRest
    /\ ds_call \in
         { PendingCall("get_dataset", dl, dic, h) :
             dl \in {x \in DatasetLists : x.is_str}, dic \in DatasetDics, h \in Harmonizations }
         \cup
         { PendingCall("get_features_dic", dl, dic, h) :
             dl \in DatasetLists, dic \in DatasetDics, h \in Harmonizations }
    /\ IdleFS
    /\ IdleGBI
    /\ IdleFFN
    /\ IdleCalls

Finished(call, r) ==
    [call EXCEPT !.done = TRUE, !.error = r.error, !.read = r.read,
                 !.feature_dic = r.feature_dic]

\* one call of get_dataset(dataset, dataset_dic, batch, harmonization)
GetDataset ==
    /\ ds_call.op = "get_dataset"
    /\ ~ds_call.done
    /\ ds_call' = Finished(ds_call, get_dataset(ds_call.dataset_list.ids[1],
                                                ds_call.dataset_dic, ds_call.harmonization))
    /\ UNCHANGED <<fsVars, gbiVars, ffnVars, ncbVars, lifVars, srVars,
                 ebVars, bsVars, bacVars, drvVars, nmVars>>

\* one call of get_features_dic(dataset_list, dataset_dic, batch, harmonization)
GetFeaturesDic ==
    /\ ds_call.op = "get_features_dic"
    /\ ~ds_call.done
    /\ ds_call' = Finished(ds_call, get_features_dic(ds_call.dataset_list,
                                                     ds_call.dataset_dic, ds_call.harmonization))
    /\ UNCHANGED <<fsVars, gbiVars, ffnVars, ncbVars, lifVars, srVars,
                 ebVars, bsVars, bacVars, drvVars, nmVars>>

NextDS == GetDataset \/ GetFeaturesDic

SpecDS == InitDS /\ [][NextDS]_vars

\* ------------------------------------------------------------------------
\* neuroComBat(X, batch, ref_batch, covariate, num_covs, ..., save_dir)
\* ------------------------------------------------------------------------
\* A value is held by its Python type (kind) and, where the code reads them,
\* its column names and row labels.  Row labels and column names are strings;
\* a list has the positions pd.DataFrame gives it as names and labels.
EmptyFrame == [kind |-> "frame", columns |-> <<>>, index |-> <<>>]

\* pd.DataFrame(value): the table, or the exception of the constructor
DataFrameOf(value) ==
    IF value.kind \in {"frame", "list", "mapping"}
    THEN [error |-> "ok", frame |-> [value EXCEPT !.kind = "frame"]]
    ELSE [error |-> "ValueError", frame |-> EmptyFrame]

\* "Check X"
check_X(X) == IF X \in {"frame", "list", "mapping"} THEN "ok" ELSE "TypeError"

\* "Check covariate": the test is on the type of X
check_covariate(X, covariate) ==
    IF covariate.kind = "None" THEN [error |-> "ok", covariate |-> EmptyFrame]
    ELSE IF X # "frame"
         THEN IF X \in {"list", "mapping"}
              THEN [error |-> DataFrameOf(covariate).error,
                    covariate |-> DataFrameOf(covariate).frame]
              ELSE [error |-> "TypeError", covariate |-> covariate]
    ELSE [error |-> "ok", covariate |-> covariate]

\* covariate.index[np.array(num_covs)].to_list() on what covariate is by then
index_labels(covariate, idx) ==
    IF covariate.kind = "list" THEN [error |-> "TypeError", labels |-> <<>>]
    ELSE IF covariate.kind # "frame" THEN [error |-> "AttributeError", labels |-> <<>>]
    ELSE IF \E i \in DOMAIN idx : idx[i] >= Len(covariate.index)
         THEN [error |-> "IndexError", labels |-> <<>>]
    ELSE [error |-> "ok", labels |-> [i \in DOMAIN idx |-> covariate.index[idx[i] + 1]]]

\* covariate.columns
columns_of(covariate) ==
    IF covariate.kind = "frame" THEN [error |-> "ok", columns |-> covariate.columns]
    ELSE [error |-> "AttributeError", columns |-> <<>>]

\* [_ for _ in covariate.columns if _ not in num_covs]
RECURSIVE Without(_, _)
Without(columns, names) ==
    IF columns = <<>> THEN <<>>
    ELSE (IF Head(columns) \in names THEN <<>> ELSE <<Head(columns)>>)
         \o Without(Tail(columns), names)

\* "Check numCovs": continuous_cols (given = FALSE stands for None) and cat_covs
check_num_covs(covariate, num_covs) ==
    LET none == [error |-> "ok", given |-> FALSE, num_covs |-> <<>>, cat_covs |-> <<>>]
    IN  IF num_covs.kind = "None"
        THEN IF columns_of(covariate).error # "ok"
             THEN [none EXCEPT !.error = columns_of(covariate).error]
             ELSE [none EXCEPT !.cat_covs = covariate.columns]
        ELSE IF num_covs.kind \notin {"int", "list"} THEN [none EXCEPT !.error = "TypeError"]
        ELSE LET l == index_labels(covariate, num_covs.idx)
             IN  IF l.error # "ok" THEN [none EXCEPT !.error = l.error]
                 ELSE [error |-> "ok", given |-> TRUE, num_covs |-> l.labels,
                       cat_covs |-> Without(covariate.columns, Range(l.labels))]

\* a batch check without the test on the number of classes
check_batch_any_classes(batch) ==
    IF batch.kind \notin {"list", "frame"} THEN "TypeError"
    ELSE IF batch.shape \notin {"1d", "2d_1col"} THEN "ValueError"
    ELSE "ok"

\* "Check batch" up to the test on the number of classes
check_batch(batch) ==
    IF batch.kind \notin {"list", "frame"} THEN "TypeError"
    ELSE IF batch.shape \notin {"1d", "2d_1col"} THEN "ValueError"
    ELSE IF Cardinality(batch.values) <= 1 THEN "ValueError"
    ELSE "ok"

\* "Check ref batch"
check_ref_batch(batch, ref_batch) ==
    IF ref_batch \notin batch.values /\ ref_batch # "None" THEN "ValueError" ELSE "ok"

NotInvoked(error) ==
    [error |-> error, invoked |-> FALSE, categorical_cols |-> <<>>, continuous_given |-> FALSE,
     continuous_cols |-> <<>>, ref_batch |-> "None", written |-> {}]

\* neuroComBat: the exception raised or "ok", whether neuroCombat was called
\* and with which columns, and the files written.  batch_frame is what
\* pd.DataFrame(batch, columns='batch') at line 77 does with a column list
\* given as one string; engine is how the call of neuroCombat ends.
neuroComBat(X, batch, ref_batch, covariate, num_covs, save_dir, batch_frame, engine) ==
    IF check_X(X) # "ok" THEN NotInvoked(check_X(X))
    ELSE
    LET c == check_covariate(X, covariate)
    IN  IF c.error # "ok" THEN NotInvoked(c.error)
        ELSE
        LET n == check_num_covs(c.covariate, num_covs)
        IN  IF n.error # "ok" THEN NotInvoked(n.error)
            ELSE IF check_batch(batch) # "ok" THEN NotInvoked(check_batch(batch))
            ELSE IF batch_frame # "ok" THEN NotInvoked(batch_frame)
            ELSE IF check_ref_batch(batch, ref_batch) # "ok"
                 THEN NotInvoked(check_ref_batch(batch, ref_batch))
            ELSE [error |-> IF engine = "ok" THEN "ok" ELSE "EngineError",
                  invoked |-> TRUE,
                  categorical_cols |-> n.cat_covs,
                  continuous_given |-> n.given,
                  continuous_cols |-> n.num_covs,
                  ref_batch |-> ref_batch,
                  written |-> IF engine = "ok" /\ save_dir # "None"
                              THEN {"Feature_MComBat.xlsx"} ELSE {}]

\* Inputs of neuroComBat
XKinds == {"frame", "list", "other"}
Covariates ==
    { [kind |-> "None", columns |-> <<>>, index |-> <<>>] }
    \cup { [kind |-> k, columns |-> <<"age", "sex">>, index |-> <<"0", "1", "2">>] :
             k \in {"frame", "mapping"} }
    \cup { [kind |-> "list", columns |-> <<"0", "1">>, index |-> <<"0", "1", "2">>] }
    \cup { [kind |-> "frame", columns |-> <<"age", "sex">>, index |-> <<"sex", "p2", "p3">>] }
    \cup { [kind |-> "other", columns |-> <<>>, index |-> <<>>] }
NumCovs ==
    { [kind |-> "None", idx |-> <<>>], [kind |-> "other", idx |-> <<>>],
      [kind |-> "int", idx |-> <<0>>], [kind |-> "list", idx |-> <<0, 1>>],
      [kind |-> "list", idx |-> <<3>>] }
Batches ==
    { [kind |-> "list", shape |-> "1d", values |-> {"Vereos", "Gemini"}],
      [kind |-> "list", shape |-> "1d", values |-> {"Vereos"}],
      [kind |-> "frame", shape |-> "2d_1col", values |-> {"Vereos", "Gemini"}],
      [kind |-> "frame", shape |-> "2d_wide", values |-> {"Vereos", "Gemini"}],
      [kind |-> "other", shape |-> "1d", values |-> {"Vereos", "Gemini"}] }
RefBatches == {"None", "Vereos", "Ingenuity"}
SaveDirs == {"None", "dir"}
BatchFrameOutcomes == {"ok", "TypeError"}
EngineOutcomes == {"ok", "fails"}

NoNcbCall == [op |-> "none"]

InitNCB ==
    /\ IdleRest
    /\ \E X \in XKinds, batch \in Batches, ref_batch \in RefBatches, covariate \in Covariates,
          num_covs \in NumCovs, save_dir \in SaveDirs :
          ncb_call = [op |-> "neuroComBat", done |-> FALSE, X |-> X, batch |-> batch,
                      ref_batch |-> ref_batch, covariate |-> covariate,
                      num_covs |-> num_covs, save_dir |-> save_dir,
                      result |-> NotInvoked("ok")]
    /\ lif_call = [op |-> "none"]
    /\ sr_call = [op |-> "none"]
    /\ IdleFS
    /\ IdleGBI
    /\ IdleFFN
    /\ IdleDS

\* one call of neuroComBat
NeuroComBat ==
    /\ ncb_call.op = "neuroComBat"
    /\ ~ncb_call.done
    /\ \E batch_frame \in BatchFrameOutcomes, engine \in EngineOutcomes :
          ncb_call' = [ncb_call EXCEPT
                          !.done = TRUE,
                          !.result = neuroComBat(ncb_call.X, ncb_call.batch, ncb_call.ref_batch,
                                                 ncb_call.covariate, ncb_call.num_covs,
                                                 ncb_call.save_dir, batch_frame, engine)]
    /\ UNCHANGED <<fsVars, gbiVars, ffnVars, dsVars, lifVars, srVars,
                 ebVars, bsVars, bacVars, drvVars, nmVars>>

NextNCB == NeuroComBat

SpecNCB == InitNCB /\ [][NextNCB]_vars

\* ------------------------------------------------------------------------
\* local_intensity_features(image, mask, target)
\* ------------------------------------------------------------------------
\* the targets the function accepts, as line 7 lists them
accepted_targets == <<"min", "max", "minimum", "maximum">>

\* a check that lower-cases the target first
target_accepted_any_case(target) ==
    target \in Range(accepted_targets) \cup {"MAX", "Minimum"}

\* target in ['min', 'max', 'minimum', 'maximum']
target_accepted(target) == target \in Range(accepted_targets)

\* target_func: GetMinimum for 'min' and 'minimum', GetMaximum otherwise
target_func(target) == IF target \in {"min", "minimum"} THEN "GetMinimum" ELSE "GetMaximum"

\* label_stats.Execute(values, mask); target_func(1): the extreme of values
\* over the voxels of label 1, or the filter's error when no voxel has it
label_extreme(func, values, mask) ==
    LET inside == {i \in DOMAIN mask : mask[i] = 1}
    IN  IF inside = {} THEN [error |-> "RuntimeError", value |-> 0]
        ELSE [error |-> "ok",
              value |-> CHOOSE v \in {values[i] : i \in inside} :
                           \A i \in inside : IF func = "GetMinimum"
                                             THEN v <= values[i] ELSE v >= values[i]]

\* local_intensity_features; convolved is the image after the convolution
\* with the 1 cm3 spherical kernel (lines 15-31)
local_intensity_features(image, mask, target, convolved) ==
    LET failed(e, computed) == [error |-> e, computed |-> computed,
                                local_intensity_peak |-> 0, global_intensity_peak |-> 0]
    IN  IF ~target_accepted(target) THEN failed("ValueError", FALSE)
        ELSE
        LET func == target_func(target)
            top == label_extreme(func, image, mask)
        IN  IF top.error # "ok" THEN failed(top.error, TRUE)
            ELSE
            LET target_mask == [i \in DOMAIN mask |->
                                  IF image[i] = top.value THEN mask[i] ELSE 0]
                lip == label_extreme(func, convolved, target_mask)
                gip == label_extreme(func, convolved, mask)
            IN  IF lip.error # "ok" THEN failed(lip.error, TRUE)
                ELSE IF gip.error # "ok" THEN failed(gip.error, TRUE)
                ELSE [error |-> "ok", computed |-> TRUE,
                      local_intensity_peak |-> lip.value,
                      global_intensity_peak |-> gip.value]

\* Inputs of local_intensity_features
Targets == {"min", "max", "minimum", "maximum", "MAX", "Minimum", "median", "largest"}
Intensities == {1, 2}
Images(n) == [1..n -> Intensities]
Masks(n) == [1..n -> {0, 1}]

InitLIF ==
    /\ IdleRest
    /\ \E n \in 1..MaxVoxels :
       \E image \in Images(n), mask \in Masks(n), convolved \in Images(n), target \in Targets :
          lif_call = [op |-> "local_intensity_features", done |-> FALSE, image |-> image,
                      mask |-> mask, target |-> target, convolved |-> convolved,
                      result |-> [error |-> "ok", computed |-> FALSE,
                                  local_intensity_peak |-> 0, global_intensity_peak |-> 0]]
    /\ ncb_call = [op |-> "none"]
    /\ sr_call = [op |-> "none"]
    /\ IdleFS
    /\ IdleGBI
    /\ IdleFFN
    /\ IdleDS

\* one call of local_intensity_features
LocalIntensityFeatures ==
    /\ lif_call.op = "local_intensity_features"
    /\ ~lif_call.done
    /\ lif_call' = [lif_call EXCEPT
                       !.done = TRUE,
                       !.result = local_intensity_features(lif_call.image, lif_call.mask,
                                                           lif_call.target, lif_call.convolved)]
    /\ UNCHANGED <<fsVars, gbiVars, ffnVars, dsVars, ncbVars, srVars,
                 ebVars, bsVars, bacVars, drvVars, nmVars>>

NextLIF == LocalIntensityFeatures

SpecLIF == InitLIF /\ [][NextLIF]_vars

\* ========================================================================
\* save_results (modeling_pipeline_article.py)
\* ========================================================================
\* A mapping is a sequence of entries [key, value] in insertion order.  The
\* metric of fold i is held as i, so that a list tells which folds it was
\* filled from.  A fitted pipeline is held by its named steps and the
\* attributes of its final estimator.
S_auc == <<"a","u","c">>
S_roc_auc == <<"r","o","c","_","a","u","c">>
S_accuracy == <<"a","c","c","u","r","a","c","y">>

\* dic[key]
dict_get(dic, key) == dic[CHOOSE i \in DOMAIN dic : dic[i].key = key].value

dict_keys(dic) == {dic[i].key : i \in DOMAIN dic}

\* dic[key].append(v)
dict_append(dic, key, v) ==
    [i \in DOMAIN dic |-> IF dic[i].key = key
                          THEN [key |-> key, value |-> Append(dic[i].value, v)]
                          ELSE dic[i]]

\* hasattr(obj, name)
hasattr(obj, name) == name \in obj.attributes

\* 'joblib_model_with_info_outer%s.pkl' % i under Pickled_model
pickle_path(i) ==
    [dir |-> "Pickled_model", name |-> <<"joblib_model_with_info_outer", i, ".pkl">>]

\* 'outer%d' % (i + 1)
sheet_name(i) == <<"outer", i + 1>>

\* the held-out AUC of one fold: the method of the model the scores are
\* taken from, and the exception when the model does not have it
fold_auc(model, n_classes) ==
    IF n_classes = 2 /\ hasattr(model.estimator, "decision_fuction")
    THEN [method |-> "decision_function",
          error |-> IF hasattr(model.estimator, "decision_function")
                    THEN "ok" ELSE "AttributeError"]
    ELSE [method |-> "predict_proba",
          error |-> IF hasattr(model.estimator, "predict_proba")
                    THEN "ok" ELSE "AttributeError"]

\* for i, model in enumerate(clf.outer_pred['model']): the metrics and the
\* pickle of each fold, from fold i on; st is what the loop has done so far
RECURSIVE metrics_loop(_, _, _, _, _)
metrics_loop(models, score, n_classes, i, st) ==
    IF i >= Len(models) THEN st
    ELSE LET with_auc == ~StrContains(score, S_auc)
             auc == fold_auc(models[i + 1], n_classes)
             r3 == dict_append(dict_append(dict_append(st.outer_results,
                       "outer_test_accuracy", i),
                       "outer_test_sensitivity", i),
                       "outer_test_specificity", i)
         IN  IF with_auc /\ auc.error # "ok"
             THEN [st EXCEPT !.error = auc.error, !.outer_results = r3]
             ELSE metrics_loop(models, score, n_classes, i + 1,
                     [error |-> "ok",
                      outer_results |-> IF with_auc
                                        THEN dict_append(r3, "outer_test_auc", i)
                                        ELSE r3,
                      auc_method |-> IF with_auc
                                     THEN Append(st.auc_method, auc.method)
                                     ELSE st.auc_method,
                      pickles |-> Append(st.pickles,
                                         [path |-> pickle_path(i),
                                          score |-> dict_get(st.outer_results,
                                                             "outer_test_score")[i + 1]])])

\* inner_results_reformated['inner_Fold']: the fold index once per candidate
RECURSIVE inner_fold_column(_, _)
inner_fold_column(inner_results, i) ==
    IF i >= Len(inner_results) THEN <<>>
    ELSE [j \in 1..inner_results[i + 1] |-> i] \o inner_fold_column(inner_results, i + 1)

\* pd.DataFrame(mapping of lists): the lists must have one length
frame_of_lists(dic) ==
    IF \A i, j \in DOMAIN dic : Len(dic[i].value) = Len(dic[j].value)
    THEN "ok" ELSE "ValueError"

\* what the sheet of one outer model holds
selected_features_sheet(model) ==
    IF "DimensionalityReduction" \in model.named_steps
    THEN IF "FeatureSelection" \in model.named_steps
         THEN "coefficient_matrix, FeatureSelection support"
         ELSE IF "SelectFromModel" \in model.named_steps
         THEN "coefficient_matrix, SelectFromModel support"
         ELSE "coefficient_matrix"
    ELSE IF "FeatureSelection" \in model.named_steps THEN "FeatureSelection support"
    ELSE IF "SelectFromModel" \in model.named_steps THEN "SelectFromModel support"
    ELSE "empty"

\* Selected_features.xlsx: for i, model in enumerate(clf.outer_pred['model'])
selected_features_sheets(models) ==
    [j \in 1..Len(models) |-> [sheet_name |-> sheet_name(j - 1),
                               content |-> selected_features_sheet(models[j])]]

\* outer_results.update(...) with an empty list for each metric computed here
reset_metric_lists(outer_results, score) ==
    LET three == dict_update(outer_results,
                     << [key |-> "outer_test_accuracy", value |-> <<>>],
                        [key |-> "outer_test_sensitivity", value |-> <<>>],
                        [key |-> "outer_test_specificity", value |-> <<>>] >>)
    IN  IF ~StrContains(score, S_auc)
        THEN dict_update(three, << [key |-> "outer_test_auc", value |-> <<>>] >>)
        ELSE three

\* a save_results that works on a copy of the outer results
outer_results_copied(clf, outer_results) == clf

\* outer_results = clf.outer_results binds the name to the mapping of clf
\* itself: clf holds whatever the call does to outer_results
outer_results_aliased(clf, outer_results) == [clf EXCEPT !.outer_results = outer_results]

\* save_results(save_dir, clf, X, y, score); n_classes is len(np.unique(y)).
\* result.clf is clf as the call leaves it.
save_results(clf, score, n_classes) ==
    LET loop == metrics_loop(clf.outer_pred_model, score, n_classes, 0,
                    [error |-> "ok",
                     outer_results |-> reset_metric_lists(clf.outer_results, score),
                     auc_method |-> <<>>,
                     pickles |-> <<>>])
        none == [error |-> loop.error, outer_results |-> loop.outer_results,
                 clf |-> outer_results_aliased(clf, loop.outer_results),
                 auc_method |-> loop.auc_method, pickles |-> loop.pickles,
                 workbooks |-> <<>>]
    IN  IF loop.error # "ok" THEN none
        ELSE IF frame_of_lists(loop.outer_results) # "ok"
        THEN [none EXCEPT !.error = frame_of_lists(loop.outer_results)]
        ELSE [none EXCEPT !.workbooks =
                 << [name |-> "NestedCV_results.xlsx",
                     sheets |-> << [sheet_name |-> "outer",
                                    content |-> dict_keys(loop.outer_results)],
                                   [sheet_name |-> "inner",
                                    content |-> inner_fold_column(clf.inner_results, 0)] >>],
                    [name |-> "Selected_features.xlsx",
                     sheets |-> selected_features_sheets(clf.outer_pred_model)],
                    [name |-> "Model_predictions.xlsx",
                     sheets |-> << [sheet_name |-> "Sheet1",
                                    content |-> {"train", "test"}] >>] >>]

\* Inputs of save_results
NamedSteps == SUBSET {"DimensionalityReduction", "FeatureSelection", "SelectFromModel"}
Estimators ==
    { [attributes |-> a] : a \in (SUBSET {"decision_function", "predict_proba"}) \ {{}} }
Scores == {S_roc_auc, S_accuracy}
ClassCounts == {2, 3}

\* the outer results of a nested CV with n outer folds; earlier is TRUE when
\* save_results has already been through them once
OuterResults(n, earlier) ==
    << [key |-> "outer_test_score", value |-> [i \in 1..n |-> i - 1]] >>
    \o (IF earlier
        THEN << [key |-> "outer_test_accuracy", value |-> [i \in 1..n |-> i - 1]],
                [key |-> "outer_test_sensitivity", value |-> [i \in 1..n |-> i - 1]],
                [key |-> "outer_test_specificity", value |-> [i \in 1..n |-> i - 1]] >>
        ELSE <<>>)

\* a fitted nested CV: one pipeline, refitted on each of the n outer folds
Clf(n, steps, estimator, candidates, earlier) ==
    [outer_results |-> OuterResults(n, earlier),
     outer_pred_model |-> [i \in 1..n |-> [named_steps |-> steps, estimator |-> estimator]],
     inner_results |-> [i \in 1..n |-> candidates]]

NoSrResult ==
    [error |-> "ok", outer_results |-> <<>>, clf |-> Clf(1, {}, [attributes |-> {}], 1, FALSE),
     auc_method |-> <<>>, pickles |-> <<>>, workbooks |-> <<>>]

InitSR ==
    /\ IdleRest
    /\ \E n \in 1..MaxFolds, steps \in NamedSteps, estimator \in Estimators,
          candidates \in 1..MaxCandidates, earlier \in BOOLEAN,
          score \in Scores, n_classes \in ClassCounts :
          sr_call = [op |-> "save_results", done |-> FALSE,
                     clf |-> Clf(n, steps, estimator, candidates, earlier),
                     score |-> score, n_classes |-> n_classes,
                     result |-> NoSrResult]
    /\ ncb_call = [op |-> "none"]
    /\ lif_call = [op |-> "none"]
    /\ IdleFS
    /\ IdleGBI
    /\ IdleFFN
    /\ IdleDS

\* one call of save_results
SaveResults ==
    /\ sr_call.op = "save_results"
    /\ ~sr_call.done
    /\ \E r \in {save_results(sr_call.clf, sr_call.score, sr_call.n_classes)} :
          sr_call' = [sr_call EXCEPT !.done = TRUE, !.result = r]
    /\ UNCHANGED <<fsVars, gbiVars, ffnVars, dsVars, ncbVars, lifVars,
                 ebVars, bsVars, bacVars, drvVars, nmVars>>

NextSR == SaveResults

SpecSR == InitSR /\ [][NextSR]_vars

\* ========================================================================
\* enhanced_borda on its own (feature_selection.py)
\* ========================================================================
\* bootstrap_ranks as fit builds it from a ranking method: one row per
\* bootstrap sample, each row the ranks 1..n of the n features
RankMatrices(samples, n) == [1..samples -> RankPermutations(n)]

\* the matrix with every rank doubled, as the aggregations above take it
Doubled(bootstrap_ranks) ==
    [b \in DOMAIN bootstrap_ranks |->
        [j \in DOMAIN bootstrap_ranks[b] |-> 2 * bootstrap_ranks[b][j]]]

InitEB ==
    /\ \E samples \in 1..MaxSamples, n \in 1..MaxFeatures :
       \E bootstrap_ranks \in RankMatrices(samples, n), k \in 0..n :
          eb_call = [op |-> "enhanced_borda", done |-> FALSE,
                     bootstrap_ranks |-> bootstrap_ranks,
                     n_selected_features |-> k,
                     result |-> <<>>]
    /\ IdleFS
    /\ IdleGBI
    /\ IdleFFN
    /\ IdleDS
    /\ IdleCalls
    /\ IdleBS
    /\ IdleBAC
    /\ IdleDRV
    /\ IdleNM

\* one call of enhanced_borda(bootstrap_ranks, n_selected_features)
EnhancedBorda ==
    /\ eb_call.op = "enhanced_borda"
    /\ ~eb_call.done
    /\ eb_call' = [eb_call EXCEPT
                      !.done = TRUE,
                      !.result = enhanced_borda(Doubled(eb_call.bootstrap_ranks),
                                                eb_call.n_selected_features)]
    /\ UNCHANGED <<fsVars, gbiVars, ffnVars, dsVars, ncbVars, lifVars, srVars,
                   bsVars, bacVars, drvVars, nmVars>>

NextEB == EnhancedBorda

SpecEB == InitEB /\ [][NextEB]_vars

\* ========================================================================
\* _get_bsamples_index: the bootstrap draw loop (feature_selection.py)
\* ========================================================================
\* A draw is held by the seed it was made with and the label classes among
\* its rows; which classes a seed gives depends on y and is left open.
\* bs.seeds lists the seeds of all draws made, bs.rejected counts the draws
\* that were not collected.

\* a loop that goes round once more when the collection is already full
loop_test_inclusive(bsamples_index, n_bsamples) == Len(bsamples_index) <= n_bsamples

\* while len(bsamples_index) < self.n_bsamples
loop_test(bsamples_index, n_bsamples) == Len(bsamples_index) < n_bsamples

\* resample(range(self.n_samples), random_state=n)
resample(n, classes) == [seed |-> n, classes |-> classes]

\* a test no draw passes
class_complete_never(bootstrap_sample, n_classes) == FALSE

\* len(np.unique(y[bootstrap_sample])) == self.n_classes
class_complete(bootstrap_sample, n_classes) ==
    Cardinality(bootstrap_sample.classes) = n_classes

\* Inputs of the loop
ClassCountsOfY == {2, 3}
RandomStates == {None, 111}

InitBS ==
    /\ \E n_bsamples \in 0..MaxSamples, n_classes \in ClassCountsOfY,
          random_state \in RandomStates :
          bs = [pc |-> "loop", n_bsamples |-> n_bsamples, n_classes |-> n_classes,
                random_state |-> random_state,
                n |-> 0, bsamples_index |-> <<>>, seeds |-> <<>>, rejected |-> 0]
    /\ IdleFS
    /\ IdleGBI
    /\ IdleFFN
    /\ IdleDS
    /\ IdleCalls
    /\ IdleEB
    /\ IdleBAC
    /\ IdleDRV
    /\ IdleNM

\* one turn of the loop body in which the draw holds the given classes.  The
\* model stops counting after MaxRejected rejected draws.
DrawWith(classes) ==
    /\ bs.pc = "loop"
    /\ loop_test(bs.bsamples_index, bs.n_bsamples)
    /\ bs.n < MaxSamples + MaxRejected
    /\ Cardinality(classes) < bs.n_classes => bs.rejected < MaxRejected
    /\ \E bootstrap_sample \in {resample(bs.n, classes)} :
          bs' = [bs EXCEPT
                    !.bsamples_index =
                        IF class_complete(bootstrap_sample, bs.n_classes)
                        THEN Append(@, bootstrap_sample) ELSE @,
                    !.rejected =
                        IF class_complete(bootstrap_sample, bs.n_classes)
                        THEN @ ELSE @ + 1,
                    !.seeds = Append(@, bootstrap_sample.seed),
                    !.n = @ + 1]
    /\ UNCHANGED <<fsVars, gbiVars, ffnVars, dsVars, ncbVars, lifVars, srVars,
                   ebVars, bacVars, drvVars, nmVars>>

\* a draw with every class of y in it
DrawComplete == DrawWith(1..bs.n_classes)

\* a draw that misses a class
DrawIncomplete ==
    \E classes \in (SUBSET (1..bs.n_classes)) \ {{}, 1..bs.n_classes} : DrawWith(classes)

\* the loop test fails: return np.array(bsamples_index)
ReturnBsamples ==
    /\ bs.pc = "loop"
    /\ ~loop_test(bs.bsamples_index, bs.n_bsamples)
    /\ bs' = [bs EXCEPT !.pc = "returned"]
    /\ UNCHANGED <<fsVars, gbiVars, ffnVars, dsVars, ncbVars, lifVars, srVars,
                   ebVars, bacVars, drvVars, nmVars>>

NextBS == DrawComplete \/ DrawIncomplete \/ ReturnBsamples

SpecBS == InitBS /\ [][NextBS]_vars

\* the loop keeps running, and class-complete draws keep occurring
SpecBSFair == SpecBS /\ WF_vars(ReturnBsamples) /\ SF_vars(DrawComplete)

\* ========================================================================
\* before_after_comparison (data_harmonization.py)
\* ========================================================================
\* A table is held by its Python type, its number of dimensions and its
\* number of columns; the two tables have one row per entry of batch.  The
\* values of a table do not decide which rows are compared, so a test is
\* held by its name and the groups of rows (positions in batch) handed to it.

\* the X check of one table: the error it raises, or "ok"
check_table(X, key) ==
    IF X.kind \notin {"list", "DataFrame"} THEN [error |-> "TypeError", key |-> key]
    ELSE IF X.ndim # 2 THEN [error |-> "ValueError", key |-> key]
    ELSE [error |-> "ok", key |-> key]

\* the batch check; a (n, 1) batch passes and keeps its two dimensions, the
\* result of batch.reshape(-1) being dropped
check_comparison_batch(batch) ==
    IF batch.kind \notin {"list", "DataFrame"} THEN "TypeError"
    ELSE IF batch.ndim # 1 /\ ~(batch.ndim = 2 /\ batch.columns = 1) THEN "ValueError"
    ELSE IF Cardinality(Range(batch.values)) <= 1 THEN "ValueError"
    ELSE "ok"

\* np.unique(batch)
np_unique(values) == AscendingSeq(Range(values))

\* the rows picked by the mask batch == v
rows_where(values, v) == {r \in DOMAIN values : values[r] = v}

\* the test of column i (counted from 0) of one table
column_test(values, i) ==
    LET labels == np_unique(values)
    IN  IF Len(labels) = 2
        THEN [test |-> "mannwhitneyu",
              groups |-> <<rows_where(values, labels[1]), rows_where(values, labels[2])>>]
        ELSE [test |-> "kruskal",
              groups |-> [l \in DOMAIN labels |-> rows_where(values, i)]]

\* the whole call
before_after_comparison(X_before, X_after, batch) ==
    LET before == check_table(X_before, "before")
        after == check_table(X_after, "after")
    IN  IF before.error # "ok" THEN [error |-> before.error, at |-> "X_before", results |-> <<>>]
        ELSE IF after.error # "ok" THEN [error |-> after.error, at |-> "X_after", results |-> <<>>]
        ELSE IF check_comparison_batch(batch) # "ok"
        THEN [error |-> check_comparison_batch(batch), at |-> "batch", results |-> <<>>]
        ELSE IF batch.ndim = 2
        THEN [error |-> "IndexError", at |-> "mask", results |-> <<>>]
        ELSE [error |-> "None", at |-> "None",
              results |-> [pvalue_before |-> [c \in 1..X_before.columns |->
                                                 column_test(batch.values, c - 1)],
                           pvalue_after |-> [c \in 1..X_after.columns |->
                                                 column_test(batch.values, c - 1)]]]

\* Inputs of a call
BatchLabels == {0, 1, 2}
Tables == {[kind |-> "str", ndim |-> 0, columns |-> 0]}
          \cup {[kind |-> k, ndim |-> 1, columns |-> 0] : k \in {"list", "DataFrame"}}
          \cup {[kind |-> k, ndim |-> 2, columns |-> c] :
                    k \in {"list", "DataFrame"}, c \in 1..MaxFeatures}
BatchValues == UNION {[1..n -> BatchLabels] : n \in 1..MaxRows}
BatchShapes == {[kind |-> "str", ndim |-> 0, columns |-> 0],
                [kind |-> "list", ndim |-> 1, columns |-> 0],
                [kind |-> "DataFrame", ndim |-> 2, columns |-> 1],
                [kind |-> "list", ndim |-> 2, columns |-> 2]}

InitBAC ==
    /\ \E X_before \in Tables, X_after \in Tables, shape \in BatchShapes,
          values \in BatchValues :
          bac_call = [op |-> "before_after_comparison", done |-> FALSE,
                      X_before |-> X_before, X_after |-> X_after,
                      batch |-> [kind |-> shape.kind, ndim |-> shape.ndim,
                                 columns |-> shape.columns, values |-> values],
                      result |-> <<>>]
    /\ IdleFS
    /\ IdleGBI
    /\ IdleFFN
    /\ IdleDS
    /\ IdleCalls
    /\ IdleEB
    /\ IdleBS
    /\ IdleDRV
    /\ IdleNM

BeforeAfterComparison ==
    /\ bac_call.op = "before_after_comparison"
    /\ ~bac_call.done
    /\ \E r \in {before_after_comparison(bac_call.X_before, bac_call.X_after,
                                         bac_call.batch)} :
          bac_call' = [bac_call EXCEPT !.done = TRUE, !.result = r]
    /\ UNCHANGED <<fsVars, gbiVars, ffnVars, dsVars, ncbVars, lifVars, srVars,
                   ebVars, bsVars, drvVars, nmVars>>

NextBAC == BeforeAfterComparison

SpecBAC == InitBAC /\ [][NextBAC]_vars

\* ========================================================================
\* Model names of the article pipeline (modeling_pipeline_article.py)
\* ========================================================================
\* Names are sequences of one-character strings.  A parsed part that the
\* code leaves unassigned is <<"?">>.

\* algo_list, dr_list and fs_list of the driver
algo_list == << <<"L","R","_","L","2">>, <<"S","V","C","_","l","i","n","e","a","r">>,
                <<"S","V","C","_","R","B","F">>, <<"R","F">>, <<"N","n","e","t">> >>
dr_list == << <<"L","e","g","e","r">> >>
fs_list == << <<"w","l","c","x","_","s","c","o","r","e","_","5">>,
              <<"w","l","c","x","_","s","c","o","r","e","_","1","0">>,
              <<"w","l","c","x","_","s","c","o","r","e","_","1","5">> >>

Unassigned == <<"?">>

DigitValue == [c \in {"0","1","2","3","4","5","6","7","8","9"} |->
                  CASE c = "0" -> 0 [] c = "1" -> 1 [] c = "2" -> 2 [] c = "3" -> 3
                    [] c = "4" -> 4 [] c = "5" -> 5 [] c = "6" -> 6 [] c = "7" -> 7
                    [] c = "8" -> 8 [] c = "9" -> 9]

\* the characters of [a-zA-Z0-9]
Alnum == DOMAIN DigitValue \cup
         {"a","b","c","d","e","f","g","h","i","j","k","l","m","n","o","p","q","r","s",
          "t","u","v","w","x","y","z","A","B","C","D","E","F","G","H","I","J","K","L",
          "M","N","O","P","Q","R","S","T","U","V","W","X","Y","Z"}

\* the number a run of digits stands for
RECURSIVE DecimalValue(_)
DecimalValue(s) ==
    IF Len(s) = 0 THEN 0
    ELSE 10 * DecimalValue(SubSeq(s, 1, Len(s) - 1)) + DigitValue[s[Len(s)]]

\* None if s == 'None' else int(s)
count_of(s) ==
    IF s = <<"N","o","n","e">> THEN [error |-> "None", value |-> None]
    ELSE IF Len(s) > 0 /\ \A i \in DOMAIN s : s[i] \in DOMAIN DigitValue
    THEN [error |-> "None", value |-> DecimalValue(s)]
    ELSE [error |-> "ValueError", value |-> None]

\* '%s_FS%s' % (dim_red, '%s_%s' % (fs, algo_name))
model_name(dim_red, fs, algo_name) == dim_red \o S_us \o <<"F","S">> \o fs \o S_us \o algo_name

\* the catalog entry get_models_randomsearch builds for (algo_name, dim_red, fs)
catalog_entry(dim_red, fs, algo_name) ==
    LET parts == StrSplit(fs, S_us)
    IN  [name |-> model_name(dim_red, fs, algo_name),
         method |-> StrJoin(S_us, SubSeq(parts, 1, Len(parts) - 1)),
         n_features |-> count_of(parts[Len(parts)])]

\* a parsing that takes the family to be the last part of every name
split_model_name_last_part(best_model_name) ==
    LET parts == StrSplit(best_model_name, S_us)
        fs_parts == StrSplit(StrJoin(S_us, SubSeq(parts, 2, Len(parts) - 1)), <<"F","S">>)
    IN  [dim_red |-> parts[1], algo_name |-> parts[Len(parts)],
         fs |-> fs_parts[Len(fs_parts)]]

\* best_model_name.split('_') and the two branches on its length
split_model_name(best_model_name) ==
    LET parts == StrSplit(best_model_name, S_us)
        fs5 == StrSplit(StrJoin(S_us, SubSeq(parts, 2, Len(parts) - 1)), <<"F","S">>)
        fs6 == StrSplit(StrJoin(S_us, SubSeq(parts, 2, Len(parts) - 2)), <<"F","S">>)
    IN  IF Len(parts) = 5
        THEN [dim_red |-> parts[1], algo_name |-> parts[5], fs |-> fs5[Len(fs5)]]
        ELSE IF Len(parts) = 6
        THEN [dim_red |-> parts[1], algo_name |-> StrJoin(S_us, SubSeq(parts, 5, 6)),
              fs |-> fs6[Len(fs6)]]
        ELSE [dim_red |-> Unassigned, algo_name |-> Unassigned, fs |-> Unassigned]

\* the position after the run of [a-zA-Z0-9] that starts at position k
RECURSIVE RunEnd(_, _)
RunEnd(s, k) == IF k <= Len(s) /\ s[k] \in Alnum THEN RunEnd(s, k + 1) ELSE k

\* re.findall('FSwlcx_score_[a-zA-Z0-9]*_', s): the matches, left to right
\* (two matches cannot overlap, each ending with the only '_' after its run)
re_findall(s) ==
    LET prefix == <<"F","S","w","l","c","x","_","s","c","o","r","e","_">>
        starts == {i \in 1..Len(s) :
                      /\ MatchAt(s, prefix, i)
                      /\ RunEnd(s, i + Len(prefix)) <= Len(s)
                      /\ s[RunEnd(s, i + Len(prefix))] = "_"}
        ordered == AscendingSeq(starts)
    IN  [m \in DOMAIN ordered |-> SubSeq(s, ordered[m], RunEnd(s, ordered[m] + Len(prefix)))]

\* n_selected_metafeatures of the driver
n_selected_metafeatures(best_model_name) ==
    LET found == re_findall(best_model_name)
    IN  IF Len(found) = 0 THEN [error |-> "IndexError", value |-> None]
        ELSE LET spec == StrSplit(SubSeq(found[1], 1, Len(found[1]) - 1), <<"F","S">>)[2]
                 parts == StrSplit(spec, S_us)
             IN  count_of(parts[Len(parts)])

\* Inputs: the driver's lists and further selection specs
Methods == {<<"w","l","c","x","_","s","c","o","r","e">>, <<"a","u","c","_","r","o","c">>,
            <<"m","r","m","r">>}
Counts == {<<"5">>, <<"1","0">>, <<"1","5">>, <<"N","o","n","e">>}
FsSpecs == {m \o S_us \o c : m \in Methods, c \in Counts}

InitNM ==
    /\ \E algo_name \in Range(algo_list), dim_red \in Range(dr_list), fs \in FsSpecs :
          nm = [pc |-> "args", algo_name |-> algo_name, dim_red |-> dim_red, fs |-> fs,
                entry |-> <<>>, parsed |-> <<>>, n_selected_metafeatures |-> <<>>]
    /\ IdleFS
    /\ IdleGBI
    /\ IdleFFN
    /\ IdleDS
    /\ IdleCalls
    /\ IdleEB
    /\ IdleBS
    /\ IdleBAC
    /\ IdleDRV

\* get_models_randomsearch adds the entry of (algo_name, dim_red, fs)
BuildName ==
    /\ nm.pc = "args"
    /\ nm' = [nm EXCEPT !.pc = "named",
                        !.entry = catalog_entry(nm.dim_red, nm.fs, nm.algo_name)]
    /\ UNCHANGED <<fsVars, gbiVars, ffnVars, dsVars, ncbVars, lifVars, srVars,
                   ebVars, bsVars, bacVars, drvVars>>

\* the driver takes the name apart
ParseName ==
    /\ nm.pc = "named"
    /\ nm' = [nm EXCEPT !.pc = "parsed",
                        !.parsed = split_model_name(nm.entry.name),
                        !.n_selected_metafeatures = n_selected_metafeatures(nm.entry.name)]
    /\ UNCHANGED <<fsVars, gbiVars, ffnVars, dsVars, ncbVars, lifVars, srVars,
                   ebVars, bsVars, bacVars, drvVars>>

NextNM == BuildName \/ ParseName

SpecNM == InitNM /\ [][NextNM]_vars

\* ========================================================================
\* The driver: training of the catalog and choice of the best model
\* ========================================================================
\* drv.models is the catalog in the order of its keys, drv.model_results
\* the dictionary the training loop fills, one [name, outer_results] per
\* trained model in the order of insertion.  cv_results.outer_results is a
\* dictionary; the model keeps its 'outer_test_score' list.

\* the keys of get_models_randomsearch(output, algos, drs, fss), in the order
\* of the three nested loops
get_models_randomsearch(algos, drs, fss) ==
    [k \in 1..(Len(algos) * Len(drs) * Len(fss)) |->
        catalog_entry(drs[(((k - 1) \div Len(fss)) % Len(drs)) + 1],
                      fss[((k - 1) % Len(fss)) + 1],
                      algos[((k - 1) \div (Len(drs) * Len(fss))) + 1]).name]

\* Inputs: catalogs of parts of the driver's lists, and outer test scores
SubLists(list) ==
    {[i \in 1..Cardinality(S) |-> list[AscendingSeq(S)[i]]] : S \in SUBSET DOMAIN list}
OuterScores == {1, 2}

InitDRV ==
    /\ \E algos \in SubLists(algo_list), fss \in SubLists(fs_list) :
          /\ Len(algos) * Len(fss) \in 1..MaxModels
          /\ drv = [pc |-> "training",
                    models |-> get_models_randomsearch(algos, dr_list, fss),
                    model_results |-> <<>>,
                    best_model_name |-> <<>>, error |-> "None"]
    /\ IdleFS
    /\ IdleGBI
    /\ IdleFFN
    /\ IdleDS
    /\ IdleCalls
    /\ IdleEB
    /\ IdleBS
    /\ IdleBAC
    /\ IdleNM

\* one turn of the loop over the catalog:
\* model_results[model_name] = cv_results.outer_results
TrainModel ==
    /\ drv.pc = "training"
    /\ Len(drv.model_results) < Len(drv.models)
    /\ \E score \in OuterScores :
          drv' = [drv EXCEPT !.model_results =
                      Append(@, [name |-> drv.models[Len(drv.model_results) + 1],
                                 outer_results |-> [outer_test_score |-> <<score>>]])]
    /\ UNCHANGED <<fsVars, gbiVars, ffnVars, dsVars, ncbVars, lifVars, srVars,
                   ebVars, bsVars, bacVars, nmVars>>

\* best_model_name = max(model_results, key=model_results.get).  max()
\* returns the only key of a one-entry dictionary without comparing; with more
\* keys it compares model_results.get(...) of two keys with '>', and these are
\* dictionaries, which Python does not order: TypeError.
SelectBest ==
    /\ drv.pc = "training"
    /\ Len(drv.model_results) = Len(drv.models)
    /\ drv' = IF Len(drv.model_results) = 1
              THEN [drv EXCEPT !.pc = "explaining",
                               !.best_model_name = drv.model_results[1].name]
              ELSE [drv EXCEPT !.pc = "failed", !.error = "TypeError"]
    /\ UNCHANGED <<fsVars, gbiVars, ffnVars, dsVars, ncbVars, lifVars, srVars,
                   ebVars, bsVars, bacVars, nmVars>>

NextDRV == TrainModel \/ SelectBest

SpecDRV == InitDRV /\ [][NextDRV]_vars

\* ========================================================================
\* Properties
\* ========================================================================

\* ---- feature selection --------------------------------------------------
WellFormed(X) == X.kind = "ok"

\* the exceptions with which fit rejects its inputs and parameters
InvalidInput == {"ValueError", "TypeError"}

\* C1: with a supervised ranking method and n_selected_features = k <= n,
\* fit_transform(X, y) returns a matrix with the rows of X and exactly k
\* columns, the k top-ranked columns of X. Here: a fit_transform on a
\* well-formed X that is not rejected as invalid input ends normally, and
\* what it returns is exactly the k columns the fit ranked first.
C1_FitTransformReturnsTopK ==
    (/\ fs_call.op = "fit_transform"
     /\ selector.kind = "Filter"
     /\ WellFormed(fs_call.X)
     /\ fs_call.error \notin InvalidInput
     /\ selector.n_selected_features <= fs_call.X.n)
    => /\ fs_call.error = "ok"
       /\ Len(fs_call.output) = selector.n_selected_features
       /\ Range(fs_call.output) = Range(selector.accepted_features_index_)

\* C2: transform on a selector that was never fit fails with NotFitted (for
\* a well-formed X; an ill-formed X is rejected before the fitted check).
C2_TransformUnfittedFails ==
    (/\ fs_call.op = "transform"
     /\ ~selector.fitted
     /\ WellFormed(fs_call.X))
    => fs_call.error = "NotFittedError"

C2_Witness ==
    /\ fs_call.op = "transform"
    /\ ~selector.fitted
    /\ selector.n_features = None
    /\ WellFormed(fs_call.X)
    /\ fs_call.error = "NotFittedError"

\* C3: fit returns the selector itself, for the filter selector and for the
\* BorutaShap selector alike.
C3_FitReturnsSelf ==
    (fs_call.op = "fit" /\ fs_call.error = "ok") => fs_call.returned = "self"

\* ---- get_dataset -------------------------------------------------------
AcceptedIds == {"S", "D", "OR", "S+D", "S+D+OR", "S+OR"}

\* C10: get_dataset accepts exactly the ids S, D, OR, S+D, S+D+OR and S+OR:
\* for each of them (every file location given) it returns a mapping whose
\* single key is the id, and for any other id it fails with InvalidInput
\* (ValueError) without loading any file.
C10_SixIdsAccepted ==
    (/\ ds_call.op = "get_dataset"
     /\ ds_call.done
     /\ ds_call.dataset_dic = {"S", "D", "OR"})
    => LET dataset == ds_call.dataset_list.ids[1]
       IN  IF dataset \in AcceptedIds
           THEN /\ ds_call.error = "ok"
                /\ Len(ds_call.feature_dic) = 1
                /\ ds_call.feature_dic[1].key = dataset
           ELSE /\ ds_call.error = "ValueError"
                /\ ds_call.read = <<>>

\* ---- get_best_index ----------------------------------------------------
GbiDone == best_index # -1

\* positions (1-based) of the configurations tied for the best rank
TiedSet == {i \in DOMAIN cv_results.params : best_rank_mask(cv_results)[i]}

HasNSelected == FS_KEY \in Range(cv_results.param_order)

\* the params mapping at the returned index
ReturnedParams == cv_results.params[best_index + 1]

SetMin(S) == CHOOSE m \in S : \A x \in S : m <= x

C5_NoneIsWorst ==
    (GbiDone /\ HasNSelected /\ \E i \in TiedSet : cv_results.params[i][FS_KEY] # None)
    => /\ ReturnedParams[FS_KEY] # None
       /\ ReturnedParams[FS_KEY] =
            SetMin({cv_results.params[i][FS_KEY] : i \in TiedSet} \ {None})

\* C5 (amended): a none count is preferred to any explicit count: when a tied
\* configuration has a none count the tied set is narrowed to the
\* none-configurations and one of them is returned; the minimal explicit count
\* is used only when no tied configuration has a none count.
C5_NoneIsPreferred ==
    (GbiDone /\ HasNSelected)
    => LET tied == Compress(cv_results.params, best_rank_mask(cv_results))
           narrowed == narrow_n_selected(tied, cv_results.param_order)
           counts == {cv_results.params[i][FS_KEY] : i \in TiedSet}
           kept == IF None \in counts THEN None ELSE SetMin(counts)
       IN  /\ Range(narrowed) = {p \in Range(tied) : p[FS_KEY] = kept}
           /\ ReturnedParams[FS_KEY] = kept

\* C5 witness: a none-configuration and an explicit one tie, the explicit one
\* first, and the none-configuration is returned.
C5_Witness ==
    /\ GbiDone
    /\ HasNSelected
    /\ Len(cv_results.params) >= 2
    /\ {1, 2} \subseteq TiedSet
    /\ cv_results.params[1][FS_KEY] = 1
    /\ cv_results.params[2][FS_KEY] = None
    /\ best_index = 1

\* the complexity hyperparameters present in the mappings
InterestPresent == Range(cv_results.param_order) \cap Range(params_of_interest)

\* the tied configurations left after the narrowing on the feature count
AfterFeatureCount ==
    narrow_n_selected(Compress(cv_results.params, best_rank_mask(cv_results)),
                      cv_results.param_order)

\* C6 (as stated): with several complexity hyperparameters present, the tied
\* set is narrowed on the first of them in the order classifier__C,
\* classifier__base_estimator__C, classifier__max_features, classifier__alpha,
\* to its smallest value.
C6_PriorityOrder ==
    (GbiDone /\ Cardinality(InterestPresent) >= 2)
    => LET first == KeepIn(params_of_interest, InterestPresent)[1]
       IN  ReturnedParams[first] =
               SetMin({AfterFeatureCount[i][first] : i \in DOMAIN AfterFeatureCount})

\* C6 (amended): with several complexity hyperparameters present, the tied set
\* is narrowed on the first of them in the key order of the params mapping, to
\* its smallest value (the smallest also for classifier__alpha).
C6_KeyOrder ==
    (GbiDone /\ Cardinality(InterestPresent) >= 2)
    => LET first == KeepIn(cv_results.param_order, InterestPresent)[1]
           least == SetMin({AfterFeatureCount[i][first] : i \in DOMAIN AfterFeatureCount})
       IN  /\ ReturnedParams[first] = least
           /\ Range(narrow_classifier(AfterFeatureCount, cv_results.param_order))
                  = {p \in Range(AfterFeatureCount) : p[first] = least}

\* C6 witness: classifier__alpha comes before classifier__max_features in the
\* mapping, two tied configurations order differently on the two, and the one
\* with the smaller alpha (and the larger max_features) is returned.
C6_Witness ==
    /\ GbiDone
    /\ cv_results.param_order = <<"classifier__alpha", "classifier__max_features">>
    /\ Len(cv_results.params) >= 2
    /\ {1, 2} \subseteq TiedSet
    /\ cv_results.params[1]["classifier__alpha"] = 2
    /\ cv_results.params[1]["classifier__max_features"] = 1
    /\ cv_results.params[2]["classifier__alpha"] = 1
    /\ cv_results.params[2]["classifier__max_features"] = 2
    /\ best_index = 1

\* ---- format_feature_name -----------------------------------------------
FfnDone == formatted.status # "none"

\* names of the form original_<family>_matrix_<rest> with a known family, and
\* the <ABBREVIATION>_<rest> expected for each
MatrixNames ==
    { [name |-> S_original_ \o S_occurrence \o <<"_">> \o S_matrix \o <<"_","C","o","r","r","e","l","a","t","i","o","n">>,
       expected |-> S_GLCM \o <<"_","C","o","r","r","e","l","a","t","i","o","n">>],
      [name |-> S_original_ \o <<"R","u","n",".","l","e","n","g","t","h","_">> \o S_matrix \o <<"_","R","L","N">>,
       expected |-> S_GLRLM \o <<"_","R","L","N">>],
      [name |-> S_original_ \o <<"S","i","z","e",".","z","o","n","e","_">> \o S_matrix \o <<"_","Z","P">>,
       expected |-> S_GLSZM \o <<"_","Z","P">>] }

\* C7: a name original_<family>_matrix_<rest> with a known family is mapped to
\* <ABBREVIATION>_<rest>, one underscore between the two parts
\* ("original_occurrence_matrix_Correlation" to "GLCM_Correlation").
C7_MatrixAbbreviation ==
    \A c \in MatrixNames :
        (FfnDone /\ feature_name = c.name)
        => formatted = [status |-> "ok", value |-> c.expected]

\* C8: a name that ends in TBR and carries the 3D tag comes back without TBR,
\* without the "_.3D._" tag, without any ".", and not ending in an underscore.
C8_TbrAnd3DTagStripped ==
    (/\ FfnDone
     /\ formatted.status = "ok"
     /\ EndsWith(feature_name, S_TBR)
     /\ StrContains(feature_name, <<".","3","D",".">>))
    => /\ ~StrContains(formatted.value, S_TBR)
       /\ ~StrContains(formatted.value, S_tag3D)
       /\ ~StrContains(formatted.value, S_dot)
       /\ Len(formatted.value) > 0
       /\ formatted.value[Len(formatted.value)] # "_"

\* C9: format_feature_name returns a string for every input string, the empty
\* one and those the deletions empty included.
C9_Total == FfnDone => formatted.status = "ok"

\* ---- neuroComBat -------------------------------------------------------
NcbDone == ncb_call.op = "neuroComBat" /\ ncb_call.done

\* the checks that come before the batch check accept X, covariate and num_covs
NcbReachesBatchCheck ==
    /\ check_X(ncb_call.X) = "ok"
    /\ check_covariate(ncb_call.X, ncb_call.covariate).error = "ok"
    /\ check_num_covs(check_covariate(ncb_call.X, ncb_call.covariate).covariate,
                      ncb_call.num_covs).error = "ok"

OneBatchValue == Cardinality(ncb_call.batch.values) = 1

AbsentRefBatch ==
    /\ Cardinality(ncb_call.batch.values) = 2
    /\ ncb_call.ref_batch # "None"
    /\ ncb_call.ref_batch \notin ncb_call.batch.values

\* C11: neuroComBat fails with InvalidInput when the batch vector has one
\* distinct value, and when it has two distinct values and ref_batch is not
\* one of them; in both cases neuroCombat is never called and no file is
\* written (for calls whose X, covariate and num_covs pass the earlier checks).
C11_BatchAndRefBatchRejected ==
    (NcbDone /\ NcbReachesBatchCheck /\ (OneBatchValue \/ AbsentRefBatch))
    => /\ ncb_call.result.error \in InvalidInput
       /\ ~ncb_call.result.invoked
       /\ ncb_call.result.written = {}

C11_Witness ==
    /\ NcbDone
    /\ NcbReachesBatchCheck
    /\ AbsentRefBatch
    /\ ncb_call.batch.kind = "list"
    /\ ncb_call.save_dir = "dir"
    /\ ncb_call.result.error = "ValueError"
    /\ ~ncb_call.result.invoked

\* ---- local_intensity_features ------------------------------------------
LifDone == lif_call.op = "local_intensity_features" /\ lif_call.done

\* str.lower() on the targets of the model
LowerTarget(target) ==
    IF target = "MAX" THEN "max" ELSE IF target = "Minimum" THEN "minimum" ELSE target

Rejected == lif_call.result.error = "ValueError" /\ ~lif_call.result.computed

\* C12 as stated: a target is accepted exactly when, compared
\* case-insensitively, it belongs to {min, minimum, max, maximum}; every other
\* target fails with InvalidInput before any image computation.
C12_CaseInsensitiveTarget ==
    LifDone => (Rejected <=> LowerTarget(lif_call.target) \notin Range(accepted_targets))

\* C12 as amended: a target is accepted exactly when it is one of the four
\* lower-case names; every other target, "MAX" and "Minimum" included, fails
\* with InvalidInput (ValueError) before any image computation.
C12_ExactTarget ==
    LifDone => (Rejected <=> lif_call.target \notin {"min", "minimum", "max", "maximum"})

C12_Witness ==
    /\ LifDone
    /\ lif_call.target = "MAX"
    /\ lif_call.mask = <<1, 1>>
    /\ Rejected

\* ---- FilterFeatureSelection.fit -----------------------------------------
\* a fit of the filter selector on a well-formed X and y
FilterFitCalled ==
    /\ fs_call.op = "fit"
    /\ selector.kind = "Filter"
    /\ WellFormed(fs_call.X)
    /\ fs_call.y = "ok"

BuiltInMethod == selector.method \in Range(scoring_methods) \cup Range(ranking_methods)

\* C13: with bootstrap on and a user-supplied aggregation function, fit
\* succeeds (and takes the retained features from the ranks the function
\* returns).
C13_UserAggregationUsed ==
    (/\ FilterFitCalled
     /\ BuiltInMethod
     /\ selector.bootstrap
     /\ selector.ranking_aggregation = "<function>")
    => /\ fs_call.error = "ok"
       /\ selector.fitted

\* C14: fit with bootstrap on and ranking_aggregation None fails with
\* InvalidInput for every method and retain count, before any bootstrap
\* sample is drawn and before any scoring.
C14_BootstrapNeedsAggregation ==
    (/\ fs_call.op = "fit"
     /\ selector.kind = "Filter"
     /\ selector.bootstrap
     /\ selector.ranking_aggregation = "None")
    => /\ fs_call.error \in InvalidInput
       /\ ~fs_call.drawn
       /\ fs_call.scored = 0

C14_Witness ==
    /\ FilterFitCalled
    /\ selector.method = "mrmr"
    /\ selector.bootstrap
    /\ selector.ranking_aggregation = "None"
    /\ selector.n_selected_features = 1
    /\ selector.n_features = 2
    /\ fs_call.error = "ValueError"
    /\ ~fs_call.drawn

\* C15: a filter selector configured with n_selected_features = None retains
\* all features of the matrix it is fitted on, in every fit of a sequence of
\* fits on matrices of different widths.
C15_NoneRetainsAll ==
    (/\ fs_call.op = "fit"
     /\ selector.kind = "Filter"
     /\ fs_call.error = "ok"
     /\ selector.user_params.n_selected_features = None)
    => Len(selector.accepted_features_index_) = fs_call.X.n

\* C16: whenever the method is a user-supplied scoring function and the
\* caller gave no lower-is-better flag, fit fails with InvalidInput, also
\* when an earlier fit of the instance used a built-in method.
C16_UserFunctionNeedsFlag ==
    (/\ FilterFitCalled
     /\ selector.method = "<function>"
     /\ ~selector.user_params.ranking_done
     /\ selector.user_params.score_indicator_lower = "None")
    => fs_call.error \in InvalidInput

\* C17: the aggregation name 'stability_selection' of the class documentation
\* is accepted by fit.
C17_DocumentedStabilityName ==
    (/\ FilterFitCalled
     /\ BuiltInMethod
     /\ selector.bootstrap
     /\ selector.ranking_aggregation = "stability_selection")
    => fs_call.error = "ok"

\* ---- neuroComBat: covariates -------------------------------------------
\* the covariate column names at the positions num_covs gives
ColumnsAt(covariate, idx) ==
    {covariate.columns[idx[i] + 1] : i \in {j \in DOMAIN idx : idx[j] < Len(covariate.columns)}}

\* C18: with num_covs given, the continuous columns passed to neuroCombat are
\* exactly the covariate column names at the given indices, the categorical
\* columns are exactly the remaining covariate columns, and the two are
\* disjoint and together cover all covariate columns.
C18_NumCovsSplitColumns ==
    (/\ NcbDone
     /\ ncb_call.result.invoked
     /\ ncb_call.num_covs.kind \in {"int", "list"})
    => LET continuous == Range(ncb_call.result.continuous_cols)
           categorical == Range(ncb_call.result.categorical_cols)
           columns == Range(ncb_call.covariate.columns)
       IN  /\ continuous = ColumnsAt(ncb_call.covariate, ncb_call.num_covs.idx)
           /\ categorical = columns \ continuous
           /\ continuous \cap categorical = {}
           /\ continuous \cup categorical = columns

\* C19: a covariate that is given is validated on its own type whatever the
\* type of X: one that is not array-like, a mapping or tabular fails with
\* InvalidInput, and an array-like or mapping covariate is coerced to a table.
C19_CovariateValidatedOnOwnType ==
    (/\ NcbDone
     /\ check_X(ncb_call.X) = "ok"
     /\ ncb_call.covariate.kind # "None")
    => /\ ncb_call.covariate.kind = "other"
          => (ncb_call.result.error \in InvalidInput /\ ~ncb_call.result.invoked)
       /\ ncb_call.covariate.kind \in {"list", "mapping"}
          => /\ check_covariate(ncb_call.X, ncb_call.covariate).covariate.kind = "frame"
             /\ ncb_call.result.error # "AttributeError"

\* ---- save_results -------------------------------------------------------
SrDone == sr_call.op = "save_results" /\ sr_call.done

SrFolds == Len(sr_call.clf.outer_pred_model)

\* the AUC the call has to compute exists: the metric is an AUC already, or
\* every final estimator has the method the AUC is specified to come from
\* (two classes: decision function or else probability; more: probability)
AucAvailable ==
    \/ StrContains(sr_call.score, S_auc)
    \/ \A j \in 1..SrFolds :
          LET a == sr_call.clf.outer_pred_model[j].estimator.attributes
          IN  IF sr_call.n_classes = 2 THEN a # {} ELSE "predict_proba" \in a

\* the metric lists save_results adds to the outer results
AddedLists ==
    {"outer_test_accuracy", "outer_test_sensitivity", "outer_test_specificity"}
    \cup (IF StrContains(sr_call.score, S_auc) THEN {} ELSE {"outer_test_auc"})

SelectedFeaturesSheets ==
    LET books == {b \in Range(sr_call.result.workbooks) : b.name = "Selected_features.xlsx"}
    IN  IF books = {} THEN <<>> ELSE (CHOOSE b \in books : TRUE).sheets

\* C20: save_results on a result with n outer folds writes exactly the n
\* files joblib_model_with_info_outer{i}.pkl, i = 0..n-1, under Pickled_model
\* and exactly the n sheets outer{i+1} in Selected_features.xlsx, one per fold
\* and none twice, and every metric list it adds to the outer results has
\* length n.
C20_OneArtifactPerFold ==
    (SrDone /\ AucAvailable)
    => /\ Len(sr_call.result.pickles) = SrFolds
       /\ \A i \in 0..(SrFolds - 1) : sr_call.result.pickles[i + 1].path = pickle_path(i)
       /\ Len(SelectedFeaturesSheets) = SrFolds
       /\ \A i \in 0..(SrFolds - 1) : SelectedFeaturesSheets[i + 1].sheet_name = <<"outer", i + 1>>
       /\ \A k \in AddedLists :
             /\ k \in dict_keys(sr_call.result.outer_results)
             /\ Len(dict_get(sr_call.result.outer_results, k)) = SrFolds

\* ---- the retained features ----------------------------------------------
\* C21: after a successful FilterFeatureSelection.fit with retain count k,
\* 0 <= k <= number of features, whatever rank vector the method or the
\* aggregation produced (ranks with ties from a user function included), the
\* accepted indices are exactly k distinct features, and every accepted
\* feature has a rank lower than or equal to that of every other feature.
C21_AcceptedAreKBest ==
    (/\ FilterFitCalled
     /\ fs_call.error = "ok"
     /\ selector.n_selected_features >= 0
     /\ selector.n_selected_features <= fs_call.X.n)
    => LET accepted == Range(selector.accepted_features_index_)
       IN  /\ Len(selector.accepted_features_index_) = selector.n_selected_features
           /\ Cardinality(accepted) = selector.n_selected_features
           /\ accepted \subseteq 0..(fs_call.X.n - 1)
           /\ \A a \in accepted : \A o \in (0..(fs_call.X.n - 1)) \ accepted :
                 fs_call.ranks[a + 1] <= fs_call.ranks[o + 1]

\* ---- get_best_index: the returned index ---------------------------------
\* positions (1-based) of the tied configurations left after both narrowings
Survivors ==
    {i \in TiedSet :
        cv_results.params[i] \in
            Range(narrow_classifier(AfterFeatureCount, cv_results.param_order))}

\* C30: for every non-empty search result, get_best_index returns the
\* smallest index, in the original ordering, of a configuration that has the
\* best (minimum) rank and survived both narrowing steps; the returned index
\* always denotes a configuration of best rank, also when one hyperparameter
\* mapping occurs more than once in the results.
C30_FirstSurvivorOfBestRank ==
    GbiDone
    => /\ best_index + 1 = SetMin(Survivors)
       /\ cv_results.rank_test_score[best_index + 1] = SeqMin(cv_results.rank_test_score)

\* C26: in save_results with a metric that is not an AUC and two classes,
\* the held-out AUC of every fold is computed, from the decision function
\* whenever the fold's final estimator has one and from the positive-class
\* probability only when it has none.
C26_DecisionFunctionFirst ==
    (SrDone /\ ~StrContains(sr_call.score, S_auc) /\ sr_call.n_classes = 2)
    => /\ Len(sr_call.result.auc_method) = SrFolds
       /\ \A j \in 1..SrFolds :
             sr_call.result.auc_method[j] =
                 IF hasattr(sr_call.clf.outer_pred_model[j].estimator, "decision_function")
                 THEN "decision_function" ELSE "predict_proba"

\* the value a mapping holds under key, <<>> when the key is absent
ValueAt(dic, key) == IF key \in dict_keys(dic) THEN dict_get(dic, key) ELSE <<>>

\* C27 (as stated): save_results reads the nested-CV result only: after it
\* returns, outer_results, outer_pred and inner_results hold the keys and
\* values they held before the call.
C27_ResultReadOnly ==
    (SrDone /\ sr_call.result.error = "ok")
    => /\ sr_call.result.clf.outer_results = sr_call.clf.outer_results
       /\ sr_call.result.clf.outer_pred_model = sr_call.clf.outer_pred_model
       /\ sr_call.result.clf.inner_results = sr_call.clf.inner_results

\* C27 (amended): after save_results returns, outer_pred and inner_results
\* are as before; outer_results keeps every other key with its value and
\* holds, for each metric computed by the call, a list of one entry per fold
\* (a list of that name from before the call is replaced).
C27_OnlyMetricListsAdded ==
    (SrDone /\ sr_call.result.error = "ok")
    => /\ sr_call.result.clf.outer_pred_model = sr_call.clf.outer_pred_model
       /\ sr_call.result.clf.inner_results = sr_call.clf.inner_results
       /\ dict_keys(sr_call.result.clf.outer_results)
              = dict_keys(sr_call.clf.outer_results) \cup AddedLists
       /\ \A k \in dict_keys(sr_call.clf.outer_results) \ AddedLists :
             dict_get(sr_call.result.clf.outer_results, k) = dict_get(sr_call.clf.outer_results, k)
       /\ \A k \in AddedLists :
             dict_get(sr_call.result.clf.outer_results, k) = [i \in 1..SrFolds |-> i - 1]

\* C27 witness: a call on results that save_results has not been through
\* returns, and the outer results have gained the accuracy list.
C27_Witness ==
    /\ SrDone
    /\ sr_call.result.error = "ok"
    /\ SrFolds >= 2
    /\ "outer_test_accuracy" \notin dict_keys(sr_call.clf.outer_results)
    /\ Len(ValueAt(sr_call.result.clf.outer_results, "outer_test_accuracy")) = SrFolds
    /\ ValueAt(sr_call.result.clf.outer_results, "outer_test_score")
           = ValueAt(sr_call.clf.outer_results, "outer_test_score")

\* ---- enhanced_borda -----------------------------------------------------
EbDone == eb_call.op = "enhanced_borda" /\ eb_call.done

EbSamples == Len(eb_call.bootstrap_ranks)

EbFeatures == Len(eb_call.bootstrap_ranks[1])

\* number of bootstrap samples in which feature j has a rank <= k
StabilityCount(j) ==
    Cardinality({b \in 1..EbSamples :
                    eb_call.bootstrap_ranks[b][j] <= eb_call.n_selected_features})

\* sum over the bootstrap samples of (base - rank of feature j)
CountDownFrom(base, j) ==
    SumOver([b \in 1..EbSamples |-> base - eb_call.bootstrap_ranks[b][j]])

\* C22 (as stated): enhanced_borda returns the ordinal ranking, largest first,
\* of the product of the borda count, the sum over the bootstraps of (number
\* of bootstraps minus rank), and the stability-selection count, the number
\* of bootstraps with rank <= k.
C22_ProductWithSampleCount ==
    EbDone
    => eb_call.result =
           rankdata_ordinal([j \in 1..EbFeatures |->
                                0 - CountDownFrom(EbSamples, j) * StabilityCount(j)])

\* C22 (amended): the borda count is the sum over the bootstraps of (number
\* of features minus rank); enhanced_borda returns the ordinal ranking,
\* largest first, of its product with the stability-selection count.
C22_ProductWithFeatureCount ==
    EbDone
    => eb_call.result =
           rankdata_ordinal([j \in 1..EbFeatures |->
                                0 - CountDownFrom(EbFeatures, j) * StabilityCount(j)])

\* C22 witness: one bootstrap sample ranks the second of three features
\* first, one feature is retained, and the second feature comes out first.
C22_Witness ==
    /\ EbDone
    /\ eb_call.bootstrap_ranks = << <<2, 1, 3>> >>
    /\ eb_call.n_selected_features = 1
    /\ eb_call.result = <<2, 1, 3>>

\* ---- the bootstrap draw loop --------------------------------------------
BsRunning == bs.pc \in {"loop", "returned"}

\* C23: in the draw loop, at every step the attempt counter equals the number
\* of collected plus rejected draws, draw number n was made with seed n,
\* counted from 0, whatever the selector's random_state; every collected draw
\* holds every label class; and the loop exits with exactly n_bsamples
\* collected draws.
C23_DrawLoopSafety ==
    BsRunning
    => /\ bs.n = Len(bs.bsamples_index) + bs.rejected
       /\ Len(bs.seeds) = bs.n
       /\ \A i \in DOMAIN bs.seeds : bs.seeds[i] = i - 1
       /\ \A i \in DOMAIN bs.bsamples_index :
             bs.bsamples_index[i].classes = 1..bs.n_classes
       /\ bs.pc = "returned" => Len(bs.bsamples_index) = bs.n_bsamples

\* C23 witness: the loop has returned two collected draws after rejecting
\* the first attempt, with a random_state that is not a seed it used.
C23_Witness ==
    /\ bs.pc = "returned"
    /\ bs.random_state = 111
    /\ bs.n_bsamples = 2
    /\ bs.rejected >= 1
    /\ bs.bsamples_index[1].seed = 1

BacDone == bac_call.op = "before_after_comparison" /\ bac_call.done

BacCompared == BacDone /\ bac_call.result.error = "None"

BacLabels == np_unique(bac_call.batch.values)

\* the rows of each distinct batch label, in the order of the labels
RowsByLabel ==
    [l \in DOMAIN BacLabels |->
        {r \in DOMAIN bac_call.batch.values : bac_call.batch.values[r] = BacLabels[l]}]

\* C25: in a comparison that returns, every column of each table is tested
\* on the groups of rows of the distinct batch labels, one group per label:
\* all of them when there are more than two labels, the rows of the first
\* label against the rows of the second when there are exactly two.
C25_GroupsAreRowsByLabel ==
    BacCompared
    => \A key \in {"pvalue_before", "pvalue_after"} :
          \A c \in DOMAIN bac_call.result.results[key] :
              bac_call.result.results[key][c].groups = RowsByLabel

\* ---- model names ----------------------------------------------------------
NmParsed == nm.pc = "parsed"

\* the name is one of the driver's catalog
InDriverCatalog ==
    /\ nm.algo_name \in Range(algo_list)
    /\ nm.dim_red \in Range(dr_list)
    /\ nm.fs \in Range(fs_list)

\* C29: for every name of the driver's catalog, taking the name apart gives
\* back the reduction strategy, the selection spec and the classifier family
\* it was built from, and the retain count read from the name is the count
\* the catalog entry was built with.
C29_NameRoundTrip ==
    (NmParsed /\ InDriverCatalog)
    => /\ nm.parsed.dim_red = nm.dim_red
       /\ nm.parsed.fs = nm.fs
       /\ nm.parsed.algo_name = nm.algo_name
       /\ nm.n_selected_metafeatures.error = "None"
       /\ nm.n_selected_metafeatures = nm.entry.n_features
       /\ nm.n_selected_metafeatures.value \in {5, 10, 15}

\* C29 witness: a six-part name of the driver's catalog, with a two-digit
\* count and a family that holds an underscore, has been taken apart.
C29_Witness ==
    /\ NmParsed
    /\ InDriverCatalog
    /\ nm.algo_name = algo_list[2]
    /\ nm.fs = fs_list[3]
    /\ Len(StrSplit(nm.entry.name, S_us)) = 6
    /\ nm.n_selected_metafeatures.value = 15

\* ---- the driver ------------------------------------------------------------
DrvSelected == drv.pc \in {"explaining", "failed"}

\* the outer test score of a trained model
OuterScoreOf(name) ==
    LET i == CHOOSE i \in DOMAIN drv.model_results : drv.model_results[i].name = name
    IN  drv.model_results[i].outer_results.outer_test_score[1]

\* C28: once every entry of a catalog of two or more entries is trained and
\* the best model is chosen, the choice has not failed: the driver goes on to
\* the explanation with an entry of the catalog whose outer result no other
\* entry exceeds.
C28_SelectsBestAndGoesOn ==
    (DrvSelected /\ Len(drv.models) >= 2)
    => /\ drv.pc = "explaining"
       /\ drv.best_model_name \in Range(drv.models)
       /\ \A i \in DOMAIN drv.model_results :
             drv.model_results[i].outer_results.outer_test_score[1]
                 <= OuterScoreOf(drv.best_model_name)

====
